---- MODULE Spec2Model ----
(***************************************************************************)
(* Local chart cache and registry client of helm's experimental OCI        *)
(* support.  The repository holds several generations of the same client;  *)
(* the variable impl names the generation a behaviour runs:                *)
(*   "v0"  Cache of unnamed/part_009:17-272 under the Client of            *)
(*         internal/experimental/registry/client.go:17-238                 *)
(*   "v1"  Cache of internal/experimental/registry/cache.go under the      *)
(*         Client of unnamed/part_013:352-630                              *)
(* (the two clients differ in PushChart only)                              *)
(*   "v2"  Cache of unnamed/part_009:289-618 under the Client of           *)
(*         internal/experimental/registry/client.go:255-528                *)
(*   "fs"  filesystemCache of unnamed/part_019:669-1076 under the Client   *)
(*         of pkg/registry/index.go:258-515                                *)
(*   "sym" the symlink layout of pkg/registry/client.go:259-528 with the   *)
(*         helpers of unnamed/part_017:167-404 (no index.json: a reference *)
(*         is a directory of symbolic links)                               *)
(* v0, v1 and v2 keep the OCI index in memory (an ORAS OCIStore) and write *)
(* it with SaveIndex; fs reads and rewrites index.json in every call.      *)
(* Spec runs the client against a registry shared with others, with write  *)
(* and network failures and kills; SpecWire runs it without failures       *)
(* against a registry that serves what this client pushed.  SpecList runs  *)
(* the listing of each generation ("sym0" is the first symlink client of   *)
(* unnamed/part_018:17-257) over a cache with missing blobs, SpecRef the   *)
(* parsing of a reference string by the commands and the client ("cli"),   *)
(* and SpecResolve the loading of a chart from manifests of any shape.     *)
(* SpecIndex runs the OCIIndex of pkg/registry/index.go:17-240 under the   *)
(* filesystemCache of unnamed/part_010 ("oci"), SpecShared two v2 Cache    *)
(* instances over one root directory, and SpecUpload the package upload of *)
(* pkg/repo/provider/chartmuseum/push.go ("chartmuseum").                  *)
(***************************************************************************)
EXTENDS Integers, Sequences, FiniteSets, TLC

VARIABLES
    impl,       \* the generation of the client this behaviour runs
    blobs,      \* blobs/sha256/<name>: file name (a digest) -> bytes of the file
    diskIndex,  \* index.json on disk
    layout,     \* whether the oci-layout marker file exists
    inited,     \* whether this process holds an open OCIStore (cache.ociStore != nil)
    index,      \* the OCIStore's in-memory index (its Manifests, in storage order)
    pc,         \* position of the operation in progress ("idle" between API calls)
    op,         \* the mutating API call in progress or last completed, with its result
    out,        \* the result of the last read-only call (LoadChart) since then
    tree,       \* sym only: refs/<repo>/tags/<tag>/{chart,meta,content} links, charts/ files
    faults,     \* I/O and network failures injected so far
    memory,     \* v2, fs: content layers held by this process's orascontent.Memorystore
    remote      \* the registry: what it serves for a reference, when that is tracked

vars == <<impl, blobs, diskIndex, layout, inited, index, pc, op, out, tree, faults, memory, remote>>

(***************************************************************************)
(* Bounds of the model.                                                    *)
(***************************************************************************)
\* failures (disk write errors, network errors) injected in one behaviour
MaxFaults == 1
\* kills of the process in one behaviour, on top of the failures
MaxKills == 1
\* index.json entries up to which the fs generation, which only appends, is run
MaxIndexLen == 2

(***************************************************************************)
(* Inputs: references, charts, and what a remote registry may serve.       *)
(***************************************************************************)
Nil == "nil"

Impls == {"v0", "v1", "v2", "fs", "sym"}
OrasImpls == {"v0", "v1", "v2"}

Refs == { [Repo |-> "localhost:5000/a", Tag |-> "1"],
          [Repo |-> "localhost:5000/b", Tag |-> "1"] }
NoTagRef == [Repo |-> "localhost:5000/a", Tag |-> ""]
NoRef == [Repo |-> "", Tag |-> ""]

\* Reference.FullName: the canonical form repo:tag
FullName(ref) == ref.Repo \o ":" \o ref.Tag

\* a chart is represented by its Metadata
Charts == { [Name |-> "alpine", Version |-> "0.1.0", AppVersion |-> "3.9"],
            [Name |-> "alpine", Version |-> "0.2.0", AppVersion |-> "3.10"] }
\* the nil *chart.Chart
NilChart == [nil |-> TRUE]
\* the zero chart.Chart (no metadata, no files)
EmptyChart == [Name |-> "", Version |-> "", AppVersion |-> ""]

HelmChartConfigMediaType == "application/vnd.cncf.helm.config.v1+json"
HelmChartContentLayerMediaType == "application/vnd.cncf.helm.chart.content.v1.tar+gzip"
MediaTypeImageManifest == "application/vnd.oci.image.manifest.v1+json"
MediaTypeImageConfig == "application/vnd.oci.image.config.v1+json"
OtherLayerMediaType == "application/vnd.oci.image.layer.v1.tar"
KnownMediaTypes == {HelmChartConfigMediaType, HelmChartContentLayerMediaType}
\* the layer media types of the sym generation
HelmChartMetaMediaType == "application/vnd.cncf.helm.chart.meta.v1+json"
HelmChartContentMediaType == "application/vnd.cncf.helm.chart.content.v1+tar"
SymKnownMediaTypes == {HelmChartMetaMediaType, HelmChartContentMediaType}

(***************************************************************************)
(* Bytes, digests, descriptors.  A digest is SHA-256 of the bytes; it is   *)
(* modelled as an injective tag (collisions are taken to be impossible).   *)
(***************************************************************************)
Digest(bytes) == [sha256 |-> bytes]

\* a file cut short by a failed write
PartialBytes == [partial |-> TRUE]

\* int64(len(bytes)): only zero / non-zero is ever inspected
Size(bytes) == IF bytes = PartialBytes THEN 0 ELSE 1

Descriptor(mediaType, bytes) ==
    [mediaType |-> mediaType, digest |-> Digest(bytes), size |-> Size(bytes)]

NoDescriptor == [mediaType |-> "", digest |-> Digest(PartialBytes), size |-> 0]

\* json.Marshal(ch.Metadata)
ConfigBytes(ch) == [json |-> "metadata", Metadata |-> ch]

\* chartutil.Save(ch, dir) read back: the chart archive (.tgz)
ArchiveBytes(ch) == [tgz |-> ch]

\* loader.LoadArchive(bytes)
LoadArchive(bytes) ==
    IF "tgz" \in DOMAIN bytes
    THEN [err |-> Nil, chart |-> bytes.tgz]
    ELSE [err |-> "not a chart archive", chart |-> NilChart]

\* ocispec.Manifest{SchemaVersion: 2, Config: config, Layers: layers}
Manifest(config, layers) == [schemaVersion |-> 2, config |-> config, layers |-> layers]
ZeroManifest == [schemaVersion |-> 0, config |-> NoDescriptor, layers |-> <<>>]

\* json.Marshal(manifest)
ManifestBytes(manifest) == [json |-> "manifest", Manifest |-> manifest]

\* json.Unmarshal(bytes, &manifest): JSON of another shape leaves the zero manifest
UnmarshalManifest(bytes) ==
    IF "json" \in DOMAIN bytes
    THEN [err |-> Nil,
          manifest |-> IF bytes.json = "manifest" THEN bytes.Manifest ELSE ZeroManifest]
    ELSE [err |-> "invalid json", manifest |-> ZeroManifest]

(***************************************************************************)
(* Errors.  A run-time panic (nil pointer dereference) ends the process.   *)
(***************************************************************************)
ErrIO == "i/o error"
ErrRemote == "remote error"
ErrAlreadyExists == "already exists"
ErrBlobNotFound == "blob not found"
ErrLayerCount == "manifest does not contain exactly 1 layer"
ErrNoContentLayer == "manifest does not contain a layer with mediatype"
ErrChartNotFound == "Chart not found"
ErrNoSuchChart == "No such chart"
ErrRefNotFound == "ref not found"
ErrTagRequired == "tag explicitly required"
ErrCorruptIndex == "index.json cannot be decoded"
ErrNoAnnotation == "could not find chart name in annotations"
ErrDigestMismatch == "unexpected commit digest"
Panic == "panic: nil pointer dereference"

(***************************************************************************)
(* index.json and the OCIStore index (github.com/deislabs/oras            *)
(* pkg/content).  An index entry is a manifest descriptor annotated with   *)
(* the reference name.                                                     *)
(***************************************************************************)
IndexEntry(name, desc) ==
    [mediaType |-> desc.mediaType, digest |-> desc.digest, size |-> desc.size, ref |-> name]

NoFile == [file |-> "absent"]
CorruptFile == [file |-> "corrupt"]
IndexFile(version, manifests) ==
    [file |-> "index", schemaVersion |-> version, manifests |-> manifests]

HasRef(ix, name) == \E i \in DOMAIN ix : ix[i].ref = name

\* positions of the entries named name
Positions(ix, name) == {i \in DOMAIN ix : ix[i].ref = name}

Min(S) == CHOOSE x \in S : \A y \in S : x <= y
Max(S) == CHOOSE x \in S : \A y \in S : x >= y

\* OCIStore.AddReference: replace the entry of that name in place, else append
AddReference(ix, name, desc) ==
    IF HasRef(ix, name)
    THEN [ix EXCEPT ![Min(Positions(ix, name))] = IndexEntry(name, desc)]
    ELSE Append(ix, IndexEntry(name, desc))

\* OCIStore.DeleteReference: drop the entries of that name
DeleteReference(ix, name) == SelectSeq(ix, LAMBDA e : e.ref # name)

\* OCIStore.LoadIndex, run by NewOCIStore: a missing index.json is an empty index
LoadIndex(file) ==
    IF file = NoFile THEN [err |-> Nil, manifests |-> <<>>]
    ELSE IF file = CorruptFile THEN [err |-> ErrCorruptIndex, manifests |-> <<>>]
    ELSE [err |-> Nil, manifests |-> file.manifests]

(***************************************************************************)
(* Blobs of the OCIStore (a containerd content store): a blob is committed *)
(* whole under its digest or not at all, and committing a digest that is   *)
(* present answers AlreadyExists.                                          *)
(***************************************************************************)
Put(bl, bytes) ==
    [d \in DOMAIN bl \cup {Digest(bytes)} |-> IF d = Digest(bytes) THEN bytes ELSE bl[d]]

\* writer.Commit
Commit(bl, bytes, ok) ==
    IF ~ok THEN [err |-> ErrIO, blobs |-> bl]
    ELSE IF Digest(bytes) \in DOMAIN bl THEN [err |-> ErrAlreadyExists, blobs |-> bl]
    ELSE [err |-> Nil, blobs |-> Put(bl, bytes)]

\* bytes a registry serves that are not the bytes the descriptor names
Corrupted(bytes) == [corrupt |-> bytes]

\* the ingester with the digest check of Commit taken out: what was downloaded is
\* kept under the digest of the descriptor
IngestUnverified(bl, desc, bytes) ==
    [err |-> Nil,
     blobs |-> [d \in DOMAIN bl \cup {desc.digest} |-> IF d = desc.digest THEN bytes ELSE bl[d]]]

\* oras.Pull fetching one descriptor into its ingester (the OCIStore, or a memory
\* store whose content the client writes to files afterwards): content.Copy writes the
\* downloaded bytes and commits them with the descriptor's digest as the expected
\* digest; Commit refuses bytes of another digest
Ingest(bl, desc, bytes) ==
    IF Digest(bytes) # desc.digest THEN [err |-> ErrDigestMismatch, blobs |-> bl]
    ELSE [err |-> Nil, blobs |-> Put(bl, bytes)]

\* storeBlob of the v0 cache: every Commit error is returned
storeBlobV0(bl, bytes, ok) ==
    LET c == Commit(bl, bytes, ok)
    IN  [err |-> c.err, exists |-> FALSE, blobs |-> c.blobs]

\* storeBlob with its error checks taken out
storeBlobUnchecked(bl, bytes, ok) ==
    LET c == Commit(bl, bytes, ok)
    IN  [err |-> Nil, exists |-> (c.err = ErrAlreadyExists), blobs |-> c.blobs]

\* storeBlob of the v1 and v2 caches: AlreadyExists is reported as exists, not as an error
storeBlob(bl, bytes, ok) ==
    LET c == Commit(bl, bytes, ok)
    IN  IF c.err = ErrAlreadyExists
        THEN [err |-> Nil, exists |-> TRUE, blobs |-> c.blobs]
        ELSE [err |-> c.err, exists |-> FALSE, blobs |-> c.blobs]

\* fetchBlob: read desc.Size bytes of the blob named desc.Digest
fetchBlob(bl, desc) ==
    IF desc.digest \notin DOMAIN bl THEN [err |-> ErrBlobNotFound, bytes |-> PartialBytes]
    ELSE IF Size(bl[desc.digest]) < desc.size THEN [err |-> ErrIO, bytes |-> PartialBytes]
    ELSE [err |-> Nil, bytes |-> bl[desc.digest]]

\* manifestDescriptorToChart (descriptorToChart in v0): manifest descriptor -> chart
manifestDescriptorToChart(bl, desc) ==
    LET mb == fetchBlob(bl, desc)
        um == UnmarshalManifest(mb.bytes)
        layer == um.manifest.layers[1]
        cb == fetchBlob(bl, layer)
    IN  IF mb.err # Nil THEN [err |-> mb.err, chart |-> NilChart]
        ELSE IF um.err # Nil THEN [err |-> um.err, chart |-> NilChart]
        ELSE IF Len(um.manifest.layers) # 1 THEN [err |-> ErrLayerCount, chart |-> NilChart]
        ELSE IF layer.mediaType # HelmChartContentLayerMediaType
             THEN [err |-> Panic, chart |-> NilChart]   \* contentLayer is nil at contentLayer.Size
        ELSE IF layer.size = 0 THEN [err |-> ErrNoContentLayer, chart |-> NilChart]
        ELSE IF cb.err # Nil THEN [err |-> cb.err, chart |-> NilChart]
        ELSE LoadArchive(cb.bytes)

\* v0 FetchChartByRef: first entry of that name; a missing name gives an empty chart
FetchChartByRefV0(ix, bl, name) ==
    IF ~HasRef(ix, name) THEN [chart |-> EmptyChart, exists |-> FALSE, err |-> Nil]
    ELSE LET c == manifestDescriptorToChart(bl, ix[Min(Positions(ix, name))])
         IN  IF c.err # Nil THEN [chart |-> NilChart, exists |-> FALSE, err |-> c.err]
             ELSE [chart |-> c.chart, exists |-> TRUE, err |-> Nil]

\* v1 FetchChartByRef: first entry of that name; a missing name gives (nil, false, nil)
FetchChartByRef(ix, bl, name) ==
    IF ~HasRef(ix, name) THEN [chart |-> NilChart, exists |-> FALSE, err |-> Nil]
    ELSE LET c == manifestDescriptorToChart(bl, ix[Min(Positions(ix, name))])
         IN  IF c.err # Nil THEN [chart |-> NilChart, exists |-> FALSE, err |-> c.err]
             ELSE [chart |-> c.chart, exists |-> TRUE, err |-> Nil]

\* v2 FetchReference: every entry of that name is read, the last one read wins,
\* the first error returns
RECURSIVE FetchScan(_, _, _, _, _)
FetchScan(ix, bl, name, i, r) ==
    IF i > Len(ix) THEN r
    ELSE IF ix[i].ref # name THEN FetchScan(ix, bl, name, i + 1, r)
    ELSE LET c == manifestDescriptorToChart(bl, ix[i])
         IN  IF c.err # Nil
             THEN [Exists |-> TRUE, err |-> c.err, Chart |-> r.Chart]
             ELSE FetchScan(ix, bl, name, i + 1,
                            [Exists |-> TRUE, err |-> Nil, Chart |-> c.chart])

FetchReference(ix, bl, ref) ==
    FetchScan(ix, bl, FullName(ref), 1, [Exists |-> FALSE, err |-> Nil, Chart |-> NilChart])

(***************************************************************************)
(* What a remote registry may serve for a reference: the manifest of a     *)
(* chart, or a manifest whose single layer is of a foreign media type.     *)
(***************************************************************************)
ChartManifest(ch) ==
    Manifest(Descriptor(HelmChartConfigMediaType, ConfigBytes(ch)),
             <<Descriptor(HelmChartContentLayerMediaType, ArchiveBytes(ch))>>)

ForeignManifest(ch) ==
    Manifest(Descriptor(HelmChartConfigMediaType, ConfigBytes(ch)),
             <<Descriptor(OtherLayerMediaType, ArchiveBytes(ch))>>)

RemoteManifests ==
    {ChartManifest(ch) : ch \in Charts} \cup {ForeignManifest(CHOOSE ch \in Charts : TRUE)}

\* the descriptor under which a manifest is stored and indexed
ManifestDescriptor(manifest) == Descriptor(MediaTypeImageManifest, ManifestBytes(manifest))

\* the bytes an honest remote serves for a descriptor
RemoteBytes(desc) == desc.digest.sha256

(***************************************************************************)
(* State of the client between and within API calls.                       *)
(***************************************************************************)
NoBlobs == [d \in {} |-> PartialBytes]

NoCall ==
    [name |-> "none", ref |-> NoRef, chart |-> NilChart, manifest |-> ZeroManifest,
     err |-> Nil, exists |-> FALSE, status |-> "", prev |-> NilChart,
     had |-> FALSE, sound |-> TRUE, fresh |-> FALSE, bad |-> NoDescriptor, saves |-> 0,
     arg |-> NilChart]

NoOut == [ref |-> NoRef, chart |-> NilChart, err |-> Nil]

\* no link / a link to target
NoLink == <<>>
Link(target) == <<target>>
NoTagDir == [chart |-> NoLink, meta |-> NoLink, content |-> NoLink]
NoTree == [tags |-> [ref \in Refs |-> NoTagDir], charts |-> {}]

\* the registry is not tracked: it is shared, and may serve anything for a reference
AnyRemote == <<>>
\* a tracked registry that holds nothing.  For each reference it holds the manifest
\* that was pushed and remembers the chart that push was a push of: the chart saved
\* under the reference by the call before the push
NoRemote == [ref \in Refs |-> [manifest |-> ZeroManifest, from |-> NilChart]]
Tracked == DOMAIN remote # {}

Init ==
    /\ impl \in Impls
    /\ blobs = NoBlobs
    /\ diskIndex = NoFile
    /\ layout = FALSE
    /\ inited = FALSE
    /\ index = <<>>
    /\ pc = "idle"
    /\ op = NoCall
    /\ out = NoOut
    /\ tree = NoTree
    /\ faults = 0
    /\ memory = {}
    /\ remote = AnyRemote

\* whether the next write or transfer may succeed / fail
Outcomes == IF faults < MaxFaults THEN {TRUE, FALSE} ELSE {TRUE}
Spend(ok) == faults' = IF ok THEN faults ELSE faults + 1

\* NewOCIStore(rootDir) when the process has no store yet: writes the oci-layout
\* marker and loads index.json.  v0 and v1 run it in NewCache, v2 in Cache.Init.
Opened ==
    IF inited THEN [err |-> Nil, index |-> index]
    ELSE LET l == LoadIndex(diskIndex) IN [err |-> l.err, index |-> l.manifests]

\* the index an API call starting now would work on
CacheIndex ==
    IF impl = "fs" THEN LoadIndex(diskIndex).manifests ELSE Opened.index

\* a restarted process finds the reference in the cache: an entry of index.json, or
\* (symlink tree, getRefsSorted) a tag directory whose chart link gives the name and
\* version and whose content link gives the digest, size and age; a directory that
\* lacks one of the two is filtered out as incomplete
Reported(ref) ==
    IF impl = "sym" THEN tree.tags[ref].chart # NoLink /\ tree.tags[ref].content # NoLink
    ELSE HasRef(LoadIndex(diskIndex).manifests, FullName(ref))

\* the record of a call that starts now.  It remembers the state the call found:
\* prev, the chart of the call before it when that was a successful SaveChart to the
\* same reference; had, whether the reference was in the cache; sound, whether
\* index.json could be decoded; fresh, whether the cache was empty.  (bad is set
\* later, to the layer for which the registry served bytes that are not its bytes;
\* saves counts the writes of index.json the call has started.)  chart is the chart
\* the caller passed, arg the caller's chart object as the call has left it so far.
Call(name, ref, chart, manifest) ==
    [NoCall EXCEPT !.name = name, !.ref = ref, !.chart = chart, !.manifest = manifest,
                   !.arg = chart,
                   !.prev = IF name \in {"Save", "Push"} /\ op.name = "Save" /\ op.err = Nil /\ op.ref = ref
                            THEN op.chart ELSE NilChart,
                   !.had = ref \in Refs /\ Reported(ref),
                   !.sound = diskIndex # CorruptFile,
                   !.fresh = blobs = NoBlobs /\ diskIndex = NoFile /\ tree = NoTree]


\* the call returns err without touching the store
Return(call, err) ==
    /\ op' = [call EXCEPT !.err = err]
    /\ out' = NoOut
    /\ pc' = "idle"

\* the process ends in a panic; its OCIStore is gone with it
Die(call) ==
    /\ Return(call, Panic)
    /\ inited' = FALSE
    /\ index' = <<>>

\* OCIStore.SaveIndex: index.json is rewritten in place (ioutil.WriteFile); a failed
\* write leaves the old file or a file that cannot be decoded
SaveIndex(ix, ok) ==
    IF ok THEN diskIndex' = IndexFile(2, ix)
    ELSE diskIndex' \in {diskIndex, CorruptFile}

(***************************************************************************)
(* SaveChart of v0, v1 and v2: StoreChartAtRef / StoreReference, one step  *)
(* per blob written and one for the index.                                 *)
(***************************************************************************)
SaveChart(ch, ref) ==
    /\ impl \in OrasImpls
    /\ pc = "idle"
    /\ LET call == Call("Save", ref, ch, ChartManifest(ch))
           o == Opened
           existing == FetchReference(o.index, blobs, ref)
       IN  IF o.err # Nil
           THEN /\ Return(call, o.err)
                /\ UNCHANGED <<layout, inited, index>>
           ELSE IF impl = "v2" /\ existing.err = Panic
           THEN /\ Die(call)
                /\ layout' = TRUE
           ELSE /\ op' = [call EXCEPT !.exists = (impl = "v2" /\ existing.Exists)]
                /\ out' = NoOut
                /\ pc' = "config"
                /\ inited' = TRUE
                /\ index' = o.index
                /\ layout' = TRUE
    /\ memory' = IF op'.err = Panic THEN {} ELSE memory
    /\ UNCHANGED <<impl, remote, tree, blobs, diskIndex, faults>>

\* storeBlob as the running generation has it
StoreBlobOf(bl, bytes, ok) ==
    IF impl = "v0" THEN storeBlobV0(bl, bytes, ok) ELSE storeBlob(bl, bytes, ok)

\* one of saveChartConfig, saveChartContentLayer, saveChartManifest
SaveBlobStep(at, bytes, next) ==
    /\ impl \in OrasImpls
    /\ pc = at
    /\ \E ok \in Outcomes :
        LET s == StoreBlobOf(blobs, bytes, ok)
        IN  /\ Spend(ok)
            /\ blobs' = s.blobs
            /\ IF s.err # Nil
               THEN /\ op' = [op EXCEPT !.err = s.err]
                    /\ pc' = "idle"
               ELSE /\ op' = IF next = "index" /\ impl = "v1"
                             THEN [op EXCEPT !.exists = s.exists] ELSE op
                    /\ pc' = next
    /\ memory' = IF impl = "v2" /\ pc' = "manifest" THEN memory \cup {bytes} ELSE memory
    /\ UNCHANGED <<impl, remote, tree, diskIndex, layout, inited, index, out>>

saveChartConfig == SaveBlobStep("config", ConfigBytes(op.chart), "layer")

saveChartContentLayer == SaveBlobStep("layer", ArchiveBytes(op.chart), "manifest")

saveChartManifest == SaveBlobStep("manifest", ManifestBytes(ChartManifest(op.chart)), "index")

\* AddReference(ref, manifest) and SaveIndex(), the end of the store call
SaveReference ==
    /\ impl \in OrasImpls
    /\ pc = "index"
    /\ index' = AddReference(index, FullName(op.ref), ManifestDescriptor(ChartManifest(op.chart)))
    /\ \E ok \in Outcomes :
        /\ Spend(ok)
        /\ SaveIndex(index', ok)
        /\ op' = [op EXCEPT !.err = IF ok THEN Nil ELSE ErrIO, !.saves = @ + 1]
    /\ pc' = "idle"
    /\ UNCHANGED <<impl, remote, memory, tree, blobs, layout, inited, out>>

(***************************************************************************)
(* LoadChart of v0, v1 and v2.                                             *)
(***************************************************************************)
LoadResult(ix, bl, ref) ==
    IF impl = "v2"
    THEN LET r == FetchReference(ix, bl, ref)
         IN  IF r.err # Nil THEN [chart |-> NilChart, err |-> r.err]
             ELSE IF ~r.Exists THEN [chart |-> NilChart, err |-> ErrChartNotFound]
             ELSE [chart |-> r.Chart, err |-> Nil]
    ELSE LET f == IF impl = "v0" THEN FetchChartByRefV0(ix, bl, FullName(ref))
                  ELSE FetchChartByRef(ix, bl, FullName(ref))
         IN  IF f.err # Nil THEN [chart |-> NilChart, err |-> f.err]
             ELSE [chart |-> f.chart, err |-> Nil]

LoadChart(ref) ==
    /\ impl \in OrasImpls
    /\ pc = "idle"
    /\ LET o == Opened
           r == LoadResult(o.index, blobs, ref)
       IN  IF o.err # Nil
           THEN /\ out' = [ref |-> ref, chart |-> NilChart, err |-> o.err]
                /\ UNCHANGED <<layout, inited, index>>
           ELSE /\ out' = [ref |-> ref, chart |-> r.chart, err |-> r.err]
                /\ layout' = TRUE
                /\ inited' = (r.err # Panic)
                /\ index' = IF r.err = Panic THEN <<>> ELSE o.index
    /\ memory' = IF out'.err = Panic THEN {} ELSE memory
    /\ UNCHANGED <<impl, remote, tree, blobs, diskIndex, pc, op, faults>>

(***************************************************************************)
(* RemoveChart of v0, v1 and v2.                                           *)
(***************************************************************************)
\* what the cache does for a remove: whether it deletes, and what it answers
RemoveResult(ix, bl, ref) ==
    IF impl = "v2"
    THEN LET r == FetchReference(ix, bl, ref)
         IN  IF r.err # Nil THEN [delete |-> FALSE, err |-> r.err]
             ELSE IF ~r.Exists THEN [delete |-> FALSE, err |-> ErrChartNotFound]
             ELSE [delete |-> TRUE, err |-> Nil]
    ELSE IF impl = "v1"
    THEN LET f == FetchChartByRef(ix, bl, FullName(ref))
         IN  IF f.err = Panic THEN [delete |-> FALSE, err |-> Panic]
             ELSE IF f.err # Nil \/ ~f.exists THEN [delete |-> FALSE, err |-> ErrNoSuchChart]
             ELSE [delete |-> TRUE, err |-> Nil]
    ELSE [delete |-> TRUE, err |-> ErrNoSuchChart]   \* v0: exists is never set

RemoveChart(ref) ==
    /\ impl \in OrasImpls
    /\ pc = "idle"
    /\ LET call == Call("Remove", ref, NilChart, ZeroManifest)
           o == Opened
           r == RemoveResult(o.index, blobs, ref)
       IN  IF o.err # Nil
           THEN /\ Return(call, o.err)
                /\ UNCHANGED <<diskIndex, layout, inited, index, faults>>
           ELSE IF r.err = Panic
           THEN /\ Die(call)
                /\ layout' = TRUE
                /\ UNCHANGED <<diskIndex, faults>>
           ELSE IF ~r.delete
           THEN /\ Return(call, r.err)
                /\ layout' = TRUE
                /\ inited' = TRUE
                /\ index' = o.index
                /\ UNCHANGED <<diskIndex, faults>>
           ELSE /\ index' = DeleteReference(o.index, FullName(ref))
                /\ layout' = TRUE
                /\ inited' = TRUE
                /\ \E ok \in Outcomes :
                    /\ Spend(ok)
                    /\ SaveIndex(index', ok)
                    /\ Return([call EXCEPT !.saves = 1],
                              IF r.err # Nil THEN r.err ELSE IF ok THEN Nil ELSE ErrIO)
    /\ memory' = IF op'.err = Panic THEN {} ELSE memory
    /\ UNCHANGED <<impl, remote, tree, blobs>>

(***************************************************************************)
(* PullChart.  v0 and v1 have a stub; v2 pulls into the OCIStore with      *)
(* oras.Pull, which fetches the manifest first and after it the config and *)
(* those layers whose media type is allowed, then indexes the manifest.    *)
(***************************************************************************)
PullChartStub(ref) ==
    /\ impl \in {"v0", "v1"}
    /\ pc = "idle"
    /\ LET o == Opened
       IN  IF o.err # Nil
           THEN /\ Return(Call("Pull", ref, NilChart, ZeroManifest), o.err)
                /\ UNCHANGED <<layout, inited, index>>
           ELSE /\ Return(Call("Pull", ref, NilChart, ZeroManifest), Nil)
                /\ layout' = TRUE
                /\ inited' = TRUE
                /\ index' = o.index
    /\ UNCHANGED <<impl, remote, memory, tree, blobs, diskIndex, faults>>

PullChart(ref, manifest) ==
    /\ impl = "v2"
    /\ pc = "idle"
    /\ LET call == Call("Pull", ref, NilChart, manifest)
           o == Opened
           existing == FetchReference(o.index, blobs, ref)
       IN  IF ref.Tag = ""
           THEN /\ Return(call, ErrTagRequired)
                /\ UNCHANGED <<layout, inited, index>>
           ELSE IF o.err # Nil
           THEN /\ Return(call, o.err)
                /\ UNCHANGED <<layout, inited, index>>
           ELSE IF existing.err = Panic
           THEN /\ Die(call)
                /\ layout' = TRUE
           ELSE IF existing.err # Nil
           THEN /\ Return(call, existing.err)
                /\ layout' = TRUE
                /\ inited' = TRUE
                /\ index' = o.index
           ELSE /\ op' = [call EXCEPT !.exists = existing.Exists]
                /\ out' = NoOut
                /\ pc' = "pull_manifest"
                /\ layout' = TRUE
                /\ inited' = TRUE
                /\ index' = o.index
    /\ memory' = IF op'.err = Panic THEN {} ELSE memory
    /\ UNCHANGED <<impl, remote, tree, blobs, diskIndex, faults>>

\* the descriptors oras.Pull fetches below a manifest
AllowedChildren(manifest) ==
    {d \in {manifest.config} \cup {manifest.layers[i] : i \in DOMAIN manifest.layers} :
        d.mediaType \in KnownMediaTypes}

\* the layers oras.Pull fetches
AllowedLayers(manifest) ==
    {manifest.layers[i] : i \in {j \in DOMAIN manifest.layers :
                                    manifest.layers[j].mediaType \in KnownMediaTypes}}

\* the layers oras.Pull hands to its ingester
PulledLayers(manifest) ==
    {RemoteBytes(manifest.layers[i]) : i \in {j \in DOMAIN manifest.layers :
                                                manifest.layers[j].mediaType \in KnownMediaTypes}}

RECURSIVE PutAll(_, _)
PutAll(bl, descs) ==
    IF descs = {} THEN bl
    ELSE LET d == CHOOSE x \in descs : TRUE
         IN  PutAll(Put(bl, RemoteBytes(d)), descs \ {d})

\* oras.Pull, first half: resolve the reference and ingest the manifest
PullManifest ==
    /\ impl = "v2"
    /\ pc = "pull_manifest"
    /\ \E ok \in Outcomes :
        /\ Spend(ok)
        /\ IF ok
           THEN /\ blobs' = Put(blobs, ManifestBytes(op.manifest))
                /\ pc' = "pull_blobs"
                /\ op' = op
           ELSE /\ blobs' = blobs
                /\ pc' = "idle"
                /\ op' = [op EXCEPT !.err = ErrRemote]
    /\ UNCHANGED <<impl, remote, memory, tree, diskIndex, layout, inited, index, out>>

\* oras.Pull, second half: ingest the allowed children; a failure stops it part-way
PullBlobs ==
    /\ impl = "v2"
    /\ pc = "pull_blobs"
    /\ \E ok \in Outcomes :
        /\ Spend(ok)
        /\ IF ok
           THEN /\ blobs' = PutAll(blobs, AllowedChildren(op.manifest))
                /\ pc' = "pull_index"
                /\ op' = op
           ELSE /\ pc' = "idle"
                /\ \/ \E got \in SUBSET AllowedChildren(op.manifest) :
                        /\ got # AllowedChildren(op.manifest)
                        /\ blobs' = PutAll(blobs, got)
                        /\ op' = [op EXCEPT !.err = ErrRemote]
                   \/ \E bad \in AllowedLayers(op.manifest) :
                      \E got \in SUBSET (AllowedChildren(op.manifest) \ {bad}) :
                        LET r == Ingest(PutAll(blobs, got), bad, Corrupted(RemoteBytes(bad)))
                        IN  /\ blobs' = r.blobs
                            /\ op' = [op EXCEPT !.err = r.err, !.bad = bad]
    /\ UNCHANGED <<impl, remote, memory, tree, diskIndex, layout, inited, index, out>>

\* PullChart after oras.Pull: AddReference, SaveIndex, FetchReference, status line
PullReference ==
    /\ impl = "v2"
    /\ pc = "pull_index"
    /\ pc' = "idle"
    /\ out' = out
    /\ \E ok \in Outcomes :
        LET ix == AddReference(index, FullName(op.ref), ManifestDescriptor(op.manifest))
            r == FetchReference(ix, blobs, op.ref)
        IN  /\ Spend(ok)
            /\ SaveIndex(ix, ok)
            /\ IF ~ok
               THEN /\ op' = [op EXCEPT !.err = ErrIO, !.saves = @ + 1]
                    /\ index' = ix
                    /\ inited' = TRUE
               ELSE IF r.err = Panic
               THEN /\ op' = [op EXCEPT !.err = Panic, !.saves = @ + 1]
                    /\ index' = <<>>
                    /\ inited' = FALSE
               ELSE /\ op' = [op EXCEPT
                                !.saves = @ + 1,
                                !.err = IF ~r.Exists THEN ErrChartNotFound ELSE r.err,
                                !.status = IF ~r.Exists THEN ""
                                           ELSE IF ~op.exists THEN "Downloaded newer chart"
                                           ELSE "Chart is up to date"]
                    /\ index' = ix
                    /\ inited' = TRUE
    /\ memory' = IF op'.err = Panic THEN {} ELSE memory
    /\ UNCHANGED <<impl, remote, tree, blobs, layout>>

(***************************************************************************)
(* The fs generation: filesystemCache writes blob files itself and the     *)
(* client appends to index.json (updateIndexJson); nothing is kept in      *)
(* memory between calls.                                                   *)
(***************************************************************************)
\* ChartToLayers + the manifest SaveChart builds from its result
FsChartManifest(ch) ==
    Manifest(Descriptor(MediaTypeImageConfig, ConfigBytes(ch)),
             <<Descriptor(HelmChartContentLayerMediaType, ArchiveBytes(ch))>>)

\* a blob file left cut short by a failed ioutil.WriteFile
Truncated(bl, bytes) ==
    [d \in DOMAIN bl \cup {Digest(bytes)} |-> IF d = Digest(bytes) THEN PartialBytes ELSE bl[d]]

\* extractLayers: the content layer of a layer list
extractLayers(layers) ==
    IF Len(layers) # 1 THEN [err |-> ErrLayerCount, layer |-> NoDescriptor]
    ELSE IF layers[1].mediaType # HelmChartContentLayerMediaType \/ layers[1].size = 0
    THEN [err |-> ErrNoContentLayer, layer |-> NoDescriptor]
    ELSE [err |-> Nil, layer |-> layers[1]]

\* SaveChart, fs: ChartToLayers, then the head of StoreReference (ensureOciLayoutFile)
FsSaveChart(ch, ref) ==
    /\ impl = "fs"
    /\ pc = "idle"
    /\ Len(LoadIndex(diskIndex).manifests) < MaxIndexLen
    /\ op' = Call("Save", ref, ch, FsChartManifest(ch))
    /\ out' = NoOut
    /\ layout' = TRUE
    /\ pc' = "fs_content"
    /\ memory' = memory \cup {ArchiveBytes(ch)}
    /\ UNCHANGED <<impl, remote, tree, blobs, diskIndex, inited, index, faults>>

\* writeFile(digestPath(...), bytes) inside a save
FsWriteStep(at, bytes, next) ==
    /\ impl = "fs"
    /\ pc = at
    /\ \E ok \in Outcomes :
        /\ Spend(ok)
        /\ IF ok
           THEN /\ blobs' = Put(blobs, bytes)
                /\ pc' = next
                /\ op' = op
           ELSE /\ blobs' \in {blobs, Truncated(blobs, bytes)}
                /\ pc' = "idle"
                /\ op' = [op EXCEPT !.err = ErrIO]
    /\ UNCHANGED <<impl, remote, memory, tree, diskIndex, layout, inited, index, out>>

FsWriteContent == FsWriteStep("fs_content", ArchiveBytes(op.chart), "fs_config")

FsWriteConfig == FsWriteStep("fs_config", ConfigBytes(op.chart), "fs_manifest")

FsWriteManifest == FsWriteStep("fs_manifest", ManifestBytes(op.manifest), "fs_index")

\* updateIndexJson: write an index.json holding an empty index when there is none,
\* read the file, append, write it back
updateIndexJson ==
    /\ impl = "fs"
    /\ pc = "fs_index"
    /\ pc' = "idle"
    /\ LET first == IF diskIndex = NoFile THEN 1 ELSE 0
           start == IF diskIndex = NoFile THEN IndexFile(0, <<>>) ELSE diskIndex
           entry == IndexEntry(FullName(op.ref), ManifestDescriptor(op.manifest))
       IN  IF start = CorruptFile
           THEN /\ op' = [op EXCEPT !.err = ErrCorruptIndex]
                /\ UNCHANGED <<diskIndex, faults>>
           ELSE \E ok \in Outcomes :
                /\ Spend(ok)
                /\ IF ok
                   THEN /\ diskIndex' = IndexFile(2, Append(start.manifests, entry))
                        /\ op' = [op EXCEPT !.saves = first + 1]
                   ELSE \/ /\ first = 1                        \* the first write fails
                           /\ diskIndex' \in {NoFile, CorruptFile}
                           /\ op' = [op EXCEPT !.err = ErrIO, !.saves = 1]
                        \/ /\ diskIndex' \in {start, CorruptFile}  \* the last write fails
                           /\ op' = [op EXCEPT !.err = ErrIO, !.saves = first + 1]
    /\ UNCHANGED <<impl, remote, memory, tree, blobs, layout, inited, index, out>>

\* ioutil.ReadFile of a blob file
ReadFile(bl, digest) ==
    IF digest \in DOMAIN bl THEN [err |-> Nil, bytes |-> bl[digest]]
    ELSE [err |-> ErrIO, bytes |-> PartialBytes]

\* LoadReference: the layers of the last index entry named ref
LoadReference(file, bl, ref) ==
    LET ix == LoadIndex(file).manifests
        at == Max(Positions(ix, FullName(ref)))
        mb == ReadFile(bl, ix[at].digest)
        um == UnmarshalManifest(mb.bytes)
    IN  IF file \in {NoFile, CorruptFile} THEN [err |-> ErrCorruptIndex, layers |-> <<>>]
        ELSE IF ~HasRef(ix, FullName(ref)) THEN [err |-> ErrRefNotFound, layers |-> <<>>]
        ELSE IF mb.err # Nil THEN [err |-> mb.err, layers |-> <<>>]
        ELSE IF um.err # Nil THEN [err |-> um.err, layers |-> <<>>]
        ELSE [err |-> Nil, layers |-> um.manifest.layers]

\* LayersToChart: read the content layer's blob file and unpack it
LayersToChart(bl, layers) ==
    LET x == extractLayers(layers)
        cb == ReadFile(bl, x.layer.digest)
    IN  IF x.err # Nil THEN [err |-> x.err, chart |-> NilChart]
        ELSE IF cb.err # Nil THEN [err |-> cb.err, chart |-> NilChart]
        ELSE LoadArchive(cb.bytes)

FsLoadChart(ref) ==
    /\ impl = "fs"
    /\ pc = "idle"
    /\ LET l == LoadReference(diskIndex, blobs, ref)
           c == LayersToChart(blobs, l.layers)
       IN  out' = IF l.err # Nil THEN [ref |-> ref, chart |-> NilChart, err |-> l.err]
                  ELSE [ref |-> ref, chart |-> c.chart, err |-> c.err]
    /\ UNCHANGED <<impl, remote, memory, tree, blobs, diskIndex, layout, inited, index, pc, op, faults>>

\* RemoveChart, fs: DeleteReference removes /tmp/content and /tmp/manifest (the
\* paths describeReference answers) and leaves index.json and the blobs alone;
\* tmpFiles tells whether those two files exist
FsRemoveChart(ref, tmpFiles) ==
    /\ impl = "fs"
    /\ pc = "idle"
    /\ Return(Call("Remove", ref, NilChart, ZeroManifest), IF tmpFiles THEN Nil ELSE ErrIO)
    /\ UNCHANGED <<impl, remote, memory, tree, blobs, diskIndex, layout, inited, index, faults>>

\* PullChart, fs: oras.Pull into the memory store, then StoreReference writes the
\* content layer and the config as blob files; index.json is not touched
FsPullChart(ref, manifest) ==
    /\ impl = "fs"
    /\ pc = "idle"
    /\ \E ok \in Outcomes :
        LET call == Call("Pull", ref, NilChart, manifest)
            pulled == SelectSeq(manifest.layers, LAMBDA d : d.mediaType \in KnownMediaTypes)
            x == extractLayers(pulled)
        IN  /\ Spend(ok)
            /\ IF ~ok
               THEN /\ UNCHANGED <<blobs, layout>>
                    /\ \/ Return(call, ErrRemote)
                       \/ \E bad \in AllowedLayers(manifest) :
                            LET r == Ingest(NoBlobs, bad, Corrupted(RemoteBytes(bad)))
                            IN  Return([call EXCEPT !.bad = bad], r.err)
               ELSE IF x.err # Nil
               THEN /\ Return(call, x.err)
                    /\ layout' = TRUE
                    /\ blobs' = blobs
               ELSE /\ Return([call EXCEPT !.status = "Downloaded newer chart"], Nil)
                    /\ layout' = TRUE
                    /\ blobs' = Put(Put(blobs, RemoteBytes(x.layer)), RemoteBytes(manifest.config))
            /\ memory' = IF ok THEN memory \cup PulledLayers(manifest) ELSE memory
    /\ UNCHANGED <<impl, remote, tree, diskIndex, inited, index>>

(***************************************************************************)
(* The sym generation: a reference is the directory                        *)
(* refs/<repo>/tags/<tag> holding three symbolic links: chart (to          *)
(* charts/<name>/versions/<version>), meta and content (to digest-named    *)
(* blob files).                                                            *)
(***************************************************************************)
\* Chart.yaml as SaveChart marshals it: name and version cleared
MetaOf(ch) == [ch EXCEPT !.Name = "", !.Version = ""]

\* the metadata SaveChart gives the chart before chartutil.Save
DashMetadata == [Name |-> "-", Version |-> "-", AppVersion |-> ""]

SetLink(tr, ref, field, link) == [tr EXCEPT !.tags[ref][field] = link]

\* createDigestFile: the file is written only when no file of that name exists
createDigestFile(bl, bytes) == IF Digest(bytes) \in DOMAIN bl THEN bl ELSE Put(bl, bytes)

\* extractLayers of the sym generation: the meta and the content layer of a layer list
SymExtractLayers(layers) ==
    LET metas == {i \in DOMAIN layers : layers[i].mediaType = HelmChartMetaMediaType}
        contents == {i \in DOMAIN layers : layers[i].mediaType = HelmChartContentMediaType}
        meta == IF metas = {} THEN NoDescriptor ELSE layers[Max(metas)]
        content == IF contents = {} THEN NoDescriptor ELSE layers[Max(contents)]
    IN  IF Len(layers) # 2 THEN [err |-> ErrLayerCount, meta |-> meta, content |-> content]
        ELSE IF meta.size = 0 \/ content.size = 0
        THEN [err |-> ErrNoContentLayer, meta |-> meta, content |-> content]
        ELSE [err |-> Nil, meta |-> meta, content |-> content]

\* the layers oras.Pull answers to a sym client: those of the known media types
SymPulledLayers(manifest) ==
    SelectSeq(manifest.layers, LAMBDA d : d.mediaType \in SymKnownMediaTypes)

\* the bytes SaveChart / PullChart write as the meta blob and as the content blob
SymMetaBytes ==
    IF op.name = "Pull" THEN RemoteBytes(SymExtractLayers(SymPulledLayers(op.manifest)).meta)
    ELSE ConfigBytes(MetaOf(op.chart))
SymContentBytes ==
    IF op.name = "Pull" THEN RemoteBytes(SymExtractLayers(SymPulledLayers(op.manifest)).content)
    ELSE ArchiveBytes(DashMetadata)

SymSaveChart(ch, ref) ==
    /\ impl = "sym"
    /\ pc = "idle"
    /\ op' = Call("Save", ref, ch, ZeroManifest)
    /\ out' = NoOut
    /\ pc' = "sym_chart"
    /\ UNCHANGED <<impl, remote, memory, tree, blobs, diskIndex, layout, inited, index, faults>>

\* createChartFile and createSymlink(chartPath, tagDir/chart); createSymlink removes
\* the old link before it makes the new one
SymLinkChart ==
    /\ impl = "sym"
    /\ pc = "sym_chart"
    /\ LET file == <<op.chart.Name, op.chart.Version>>
           made == [tree EXCEPT !.charts = @ \cup {file}]
       IN  \E ok \in Outcomes :
            /\ Spend(ok)
            /\ IF ok
               THEN /\ tree' = SetLink(made, op.ref, "chart", Link(file))
                    /\ pc' = "sym_meta"
                    /\ op' = op
               ELSE /\ tree' \in {tree, SetLink(made, op.ref, "chart", NoLink)}
                    /\ pc' = "idle"
                    /\ op' = [op EXCEPT !.err = ErrIO]
    /\ UNCHANGED <<impl, remote, memory, blobs, diskIndex, layout, inited, index, out>>

\* the caller's chart object once SaveChart has reached the step: before the meta
\* blob ch.Metadata.Name and .Version are set to "", before the content blob
\* ch.Metadata is replaced by {Name: "-", Version: "-"}
SymChartObject(at) ==
    IF op.name # "Save" THEN op.arg
    ELSE IF at = "sym_meta" THEN MetaOf(op.chart) ELSE DashMetadata

\* createDigestFile(bytes) and createSymlink(path, tagDir/field)
SymBlobStep(at, field, bytes, next) ==
    /\ impl = "sym"
    /\ pc = at
    /\ \E ok \in Outcomes :
        /\ Spend(ok)
        /\ IF ok
           THEN /\ blobs' = createDigestFile(blobs, bytes)
                /\ tree' = SetLink(tree, op.ref, field, Link(Digest(bytes)))
                /\ pc' = next
                /\ op' = [op EXCEPT !.arg = SymChartObject(at)]
           ELSE /\ \/ /\ Digest(bytes) \notin DOMAIN blobs      \* the write fails
                      /\ blobs' \in {blobs, Truncated(blobs, bytes)}
                      /\ tree' = tree
                   \/ /\ blobs' = createDigestFile(blobs, bytes)  \* the symlink fails
                      /\ tree' = SetLink(tree, op.ref, field, NoLink)
                /\ pc' = "idle"
                /\ op' = [op EXCEPT !.err = ErrIO, !.arg = SymChartObject(at)]
    /\ UNCHANGED <<impl, remote, memory, diskIndex, layout, inited, index, out>>

SymLinkMeta == SymBlobStep("sym_meta", "meta", SymMetaBytes, "sym_content")

SymLinkContent == SymBlobStep("sym_content", "content", SymContentBytes, "idle")

\* PullChart, sym: oras.Pull into a memory store of its own, extractLayers, name and
\* version from the content layer's annotations; the links follow as in SaveChart
SymPullChart(ref, manifest) ==
    /\ impl = "sym"
    /\ pc = "idle"
    /\ \E ok \in Outcomes :
        LET x == SymExtractLayers(SymPulledLayers(manifest))
            named == "name" \in DOMAIN x.content /\ "version" \in DOMAIN x.content
            pulled == [Name |-> x.content.name, Version |-> x.content.version, AppVersion |-> ""]
        IN  /\ Spend(ok)
            /\ IF ~ok
               THEN \/ Return(Call("Pull", ref, NilChart, manifest), ErrRemote)
                    \/ \E i \in DOMAIN SymPulledLayers(manifest) :
                         LET bad == SymPulledLayers(manifest)[i]
                             r == Ingest(NoBlobs, bad, Corrupted(RemoteBytes(bad)))
                         IN  Return([Call("Pull", ref, NilChart, manifest)
                                        EXCEPT !.bad = [mediaType |-> bad.mediaType,
                                                        digest |-> bad.digest,
                                                        size |-> bad.size]], r.err)
               ELSE IF x.err # Nil THEN Return(Call("Pull", ref, NilChart, manifest), x.err)
               ELSE IF ~named
               THEN Return(Call("Pull", ref, NilChart, manifest), ErrNoAnnotation)
               ELSE /\ op' = Call("Pull", ref, pulled, manifest)
                    /\ out' = NoOut
                    /\ pc' = "sym_chart"
    /\ UNCHANGED <<impl, remote, memory, tree, blobs, diskIndex, layout, inited, index>>

\* getSymlinkDestContent: Readlink, then ReadFile of the target
getSymlinkDestContent(bl, link) ==
    IF link = NoLink THEN [err |-> ErrIO, bytes |-> PartialBytes] ELSE ReadFile(bl, link[1])

\* json.Unmarshal(bytes, &metadata)
UnmarshalMetadata(bytes) ==
    IF "json" \in DOMAIN bytes
    THEN [err |-> Nil,
          metadata |-> IF bytes.json = "metadata" THEN bytes.Metadata ELSE EmptyChart]
    ELSE [err |-> "invalid json", metadata |-> EmptyChart]

\* LoadChart, sym: name and version from the chart link (empty when it cannot be
\* read), the rest of the metadata from the meta blob, the files from the content blob
SymLoadResult(tr, bl, ref) ==
    LET dir == tr.tags[ref]
        name == IF dir.chart = NoLink THEN "" ELSE dir.chart[1][1]
        version == IF dir.chart = NoLink THEN "" ELSE dir.chart[1][2]
        mb == getSymlinkDestContent(bl, dir.meta)
        um == UnmarshalMetadata(mb.bytes)
        cb == getSymlinkDestContent(bl, dir.content)
        la == LoadArchive(cb.bytes)
    IN  IF mb.err # Nil THEN [err |-> mb.err, chart |-> NilChart]
        ELSE IF um.err # Nil THEN [err |-> um.err, chart |-> NilChart]
        ELSE IF cb.err # Nil THEN [err |-> cb.err, chart |-> NilChart]
        ELSE IF la.err # Nil THEN [err |-> la.err, chart |-> NilChart]
        ELSE [err |-> Nil, chart |-> [um.metadata EXCEPT !.Name = name, !.Version = version]]

SymLoadChart(ref) ==
    /\ impl = "sym"
    /\ pc = "idle"
    /\ LET r == SymLoadResult(tree, blobs, ref)
       IN  out' = [ref |-> ref, chart |-> r.chart, err |-> r.err]
    /\ UNCHANGED <<impl, remote, memory, tree, blobs, diskIndex, layout, inited, index, pc, op, faults>>

\* RemoveChart, sym: os.RemoveAll(tagDir), which answers nil for a missing directory
SymRemoveChart(ref) ==
    /\ impl = "sym"
    /\ pc = "idle"
    /\ tree' = [tree EXCEPT !.tags[ref] = NoTagDir]
    /\ Return(Call("Remove", ref, NilChart, ZeroManifest), Nil)
    /\ UNCHANGED <<impl, remote, memory, blobs, diskIndex, layout, inited, index, faults>>

(***************************************************************************)
(* PushChart.  oras.Push packs a manifest from a config and layers, reads  *)
(* their bytes from the content provider it is given, and uploads the      *)
(* blobs before the manifest.                                              *)
(***************************************************************************)
\* the "{}" config oras.Push makes up when it is given none
EmptyConfigBytes == [json |-> "empty"]
GeneratedConfig(mediaType) == Descriptor(mediaType, EmptyConfigBytes)

\* FetchDescriptorByRef: the descriptor of the index entry of that name, or nil
FetchDescriptorByRef(ix, name) ==
    IF ~HasRef(ix, name) THEN [nil |-> TRUE, desc |-> NoDescriptor]
    ELSE LET e == ix[Min(Positions(ix, name))]
         IN  [nil |-> FALSE,
              desc |-> [mediaType |-> e.mediaType, digest |-> e.digest, size |-> e.size]]

\* v0: the index entry's descriptor is dereferenced unchecked and pushed as the one
\* layer, read from the OCIStore
PushResultV0(ix, bl, ref) ==
    LET d == FetchDescriptorByRef(ix, FullName(ref))
    IN  IF d.nil THEN [err |-> Panic, manifest |-> ZeroManifest]
        ELSE IF fetchBlob(bl, d.desc).err # Nil
        THEN [err |-> ErrBlobNotFound, manifest |-> ZeroManifest]
        ELSE [err |-> Nil,
              manifest |-> Manifest(GeneratedConfig(MediaTypeImageConfig), <<d.desc>>)]

\* LoadChartDescriptorsByRef: its body is commented out, it finds nothing
LoadChartDescriptorsByRef(ix, name) == [exists |-> FALSE, err |-> Nil]

\* v1: "No such chart" unless LoadChartDescriptorsByRef finds the reference
PushResultV1(ix, bl, ref) ==
    LET l == LoadChartDescriptorsByRef(ix, FullName(ref))
    IN  IF l.err # Nil THEN [err |-> l.err, manifest |-> ZeroManifest]
        ELSE [err |-> ErrNoSuchChart, manifest |-> ZeroManifest]

\* v2: config and content layer of the reference, read from the memory store
PushResultV2(ix, bl, mem, ref) ==
    LET r == FetchReference(ix, bl, ref)
        e == ix[Max(Positions(ix, FullName(ref)))]
        m == UnmarshalManifest(fetchBlob(bl, e).bytes).manifest
    IN  IF r.err # Nil THEN [err |-> r.err, manifest |-> ZeroManifest]
        ELSE IF ~r.Exists THEN [err |-> ErrChartNotFound, manifest |-> ZeroManifest]
        ELSE IF RemoteBytes(m.layers[1]) \notin mem
        THEN [err |-> ErrBlobNotFound, manifest |-> ZeroManifest]
        ELSE [err |-> Nil, manifest |-> Manifest(m.config, m.layers)]

\* fs: the layers LoadReference answers, read from the memory store, under a made-up
\* config
PushResultFs(file, bl, mem, ref) ==
    LET l == LoadReference(file, bl, ref)
    IN  IF l.err # Nil THEN [err |-> l.err, manifest |-> ZeroManifest]
        ELSE IF \E i \in DOMAIN l.layers : RemoteBytes(l.layers[i]) \notin mem
        THEN [err |-> ErrBlobNotFound, manifest |-> ZeroManifest]
        ELSE [err |-> Nil,
              manifest |-> Manifest(GeneratedConfig(HelmChartConfigMediaType), l.layers)]

\* a layer descriptor of the sym generation; the content layer carries the chart's
\* name and version as annotations
SymLayer(mediaType, bytes) == Descriptor(mediaType, bytes)
SymContentLayer(bytes, name, version) ==
    [mediaType |-> HelmChartContentMediaType, digest |-> Digest(bytes), size |-> Size(bytes),
     name |-> name, version |-> version]

\* what a sym client pushes for a chart
SymManifest(ch) ==
    Manifest(GeneratedConfig(MediaTypeImageConfig),
             <<SymLayer(HelmChartMetaMediaType, ConfigBytes(MetaOf(ch))),
               SymContentLayer(ArchiveBytes(DashMetadata), ch.Name, ch.Version)>>)

\* sym: the meta and content blobs the links lead to, annotated from the chart link
PushResultSym(tr, bl, ref) ==
    LET dir == tr.tags[ref]
        mb == getSymlinkDestContent(bl, dir.meta)
        cb == getSymlinkDestContent(bl, dir.content)
    IN  IF mb.err # Nil THEN [err |-> mb.err, manifest |-> ZeroManifest]
        ELSE IF cb.err # Nil THEN [err |-> cb.err, manifest |-> ZeroManifest]
        ELSE IF dir.chart = NoLink THEN [err |-> ErrIO, manifest |-> ZeroManifest]
        ELSE [err |-> Nil,
              manifest |-> Manifest(GeneratedConfig(MediaTypeImageConfig),
                                    <<SymLayer(HelmChartMetaMediaType, mb.bytes),
                                      SymContentLayer(cb.bytes, dir.chart[1][1],
                                                      dir.chart[1][2])>>)]

\* what a registry shared with other clients may serve to a sym client
SymRemoteManifests ==
    {SymManifest(ch) : ch \in Charts} \cup {ForeignManifest(CHOOSE ch \in Charts : TRUE)}

\* what the registry serves for a reference
Served(ref) ==
    IF ~Tracked THEN (IF impl = "sym" THEN SymRemoteManifests ELSE RemoteManifests)
    ELSE IF ref \notin DOMAIN remote \/ remote[ref].manifest = ZeroManifest THEN {}
    ELSE {remote[ref].manifest}

\* the registry after a manifest was pushed under a reference
Upload(ref, manifest, from) ==
    remote' = IF Tracked THEN [remote EXCEPT ![ref] = [manifest |-> manifest, from |-> from]]
              ELSE remote

PushResult(ix, ref) ==
    IF impl = "v0" THEN PushResultV0(ix, blobs, ref)
    ELSE IF impl = "v1" THEN PushResultV1(ix, blobs, ref)
    ELSE IF impl = "v2" THEN PushResultV2(ix, blobs, memory, ref)
    ELSE IF impl = "fs" THEN PushResultFs(diskIndex, blobs, memory, ref)
    ELSE PushResultSym(tree, blobs, ref)

PushChart(ref) ==
    /\ pc = "idle"
    /\ LET call == Call("Push", ref, NilChart, ZeroManifest)
           o == IF impl \in OrasImpls THEN Opened ELSE [err |-> Nil, index |-> index]
           r == PushResult(o.index, ref)
           opens == impl \in OrasImpls
       IN  IF o.err # Nil
           THEN /\ Return(call, o.err)
                /\ UNCHANGED <<layout, inited, index, faults, remote>>
           ELSE IF r.err = Panic
           THEN /\ Die(call)
                /\ layout' = TRUE
                /\ UNCHANGED <<faults, remote>>
           ELSE /\ layout' = (layout \/ opens)
                /\ inited' = (inited \/ opens)
                /\ index' = o.index
                /\ IF r.err # Nil
                   THEN /\ Return(call, r.err)
                        /\ UNCHANGED <<faults, remote>>
                   ELSE \E ok \in Outcomes :
                        /\ Spend(ok)
                        /\ IF ok
                           THEN /\ Upload(ref, r.manifest, call.prev)
                                /\ Return([call EXCEPT !.manifest = r.manifest], Nil)
                           ELSE /\ remote' = remote
                                /\ Return(call, ErrRemote)
    /\ memory' = IF op'.err = Panic THEN {} ELSE memory
    /\ UNCHANGED <<impl, tree, blobs, diskIndex>>

(***************************************************************************)
(* The process is killed between two steps of a call: nothing of the call  *)
(* that was still to come happens, and what the process held in memory is  *)
(* gone.  (A kill during a write is a failed write followed by the end of  *)
(* the process.)  A kill may come after a failure of an earlier call: the *)
(* two are independent events.                                             *)
(***************************************************************************)
ErrKilled == "signal: killed"

Kill ==
    /\ pc # "idle"
    /\ faults < MaxFaults + MaxKills
    /\ faults' = faults + 1
    /\ pc' = "idle"
    /\ op' = [op EXCEPT !.err = ErrKilled]
    /\ inited' = FALSE
    /\ index' = <<>>
    /\ memory' = {}
    /\ UNCHANGED <<impl, remote, tree, blobs, diskIndex, layout, out>>

(***************************************************************************)
(* A new process (the next CLI invocation) starts with no store open.      *)
(***************************************************************************)
NewProcess ==
    /\ pc = "idle"
    /\ inited \/ memory # {}
    /\ inited' = FALSE
    /\ index' = <<>>
    /\ out' = NoOut
    /\ memory' = {}
    /\ UNCHANGED <<impl, remote, tree, blobs, diskIndex, layout, pc, op, faults>>

(***************************************************************************)
(* The client moves to a fresh, empty cache directory (a new machine, or   *)
(* HELM_HOME pointed elsewhere); the registry is what it was.              *)
(***************************************************************************)
FreshCache ==
    /\ pc = "idle"
    /\ blobs # NoBlobs \/ diskIndex # NoFile \/ tree # NoTree
    /\ blobs' = NoBlobs
    /\ diskIndex' = NoFile
    /\ tree' = NoTree
    /\ layout' = FALSE
    /\ inited' = FALSE
    /\ index' = <<>>
    /\ memory' = {}
    /\ out' = NoOut
    /\ op' = NoCall
    /\ UNCHANGED <<impl, remote, pc, faults>>

Next ==
    \/ \E ch \in Charts, ref \in Refs : SaveChart(ch, ref)
    \/ saveChartConfig
    \/ saveChartContentLayer
    \/ saveChartManifest
    \/ SaveReference
    \/ \E ref \in Refs : LoadChart(ref)
    \/ \E ref \in Refs : RemoveChart(ref)
    \/ \E ref \in Refs \cup {NoTagRef} : PullChartStub(ref)
    \/ \E ref \in Refs \cup {NoTagRef} : \E manifest \in Served(ref) : PullChart(ref, manifest)
    \/ PullManifest
    \/ PullBlobs
    \/ PullReference
    \/ \E ch \in Charts, ref \in Refs : FsSaveChart(ch, ref)
    \/ FsWriteContent
    \/ FsWriteConfig
    \/ FsWriteManifest
    \/ updateIndexJson
    \/ \E ref \in Refs : FsLoadChart(ref)
    \/ \E ref \in Refs, tmpFiles \in BOOLEAN : FsRemoveChart(ref, tmpFiles)
    \/ \E ref \in Refs \cup {NoTagRef} : \E manifest \in Served(ref) : FsPullChart(ref, manifest)
    \/ \E ref \in Refs : \E manifest \in Served(ref) : SymPullChart(ref, manifest)
    \/ \E ch \in Charts, ref \in Refs : SymSaveChart(ch, ref)
    \/ SymLinkChart
    \/ SymLinkMeta
    \/ SymLinkContent
    \/ \E ref \in Refs : SymLoadChart(ref)
    \/ \E ref \in Refs : SymRemoveChart(ref)
    \/ \E ref \in Refs : PushChart(ref)
    \/ NewProcess
    \/ Kill

Spec == Init /\ [][Next]_vars

(***************************************************************************)
(* The same client against a registry of its own, with no failures: what   *)
(* is pulled is what was pushed.                                           *)
(***************************************************************************)
\* the references the client pushes and pulls
WireRefs == {CHOOSE ref \in Refs : TRUE}

InitWire ==
    /\ impl \in Impls
    /\ blobs = NoBlobs
    /\ diskIndex = NoFile
    /\ layout = FALSE
    /\ inited = FALSE
    /\ index = <<>>
    /\ pc = "idle"
    /\ op = NoCall
    /\ out = NoOut
    /\ tree = NoTree
    /\ faults = MaxFaults
    /\ memory = {}
    /\ remote = NoRemote

NextWire ==
    \/ \E ch \in Charts, ref \in Refs : SaveChart(ch, ref)
    \/ saveChartConfig
    \/ saveChartContentLayer
    \/ saveChartManifest
    \/ SaveReference
    \/ \E ref \in Refs : LoadChart(ref)
    \/ \E ref \in WireRefs : PullChartStub(ref)
    \/ \E ref \in WireRefs : \E manifest \in Served(ref) : PullChart(ref, manifest)
    \/ PullManifest
    \/ PullBlobs
    \/ PullReference
    \/ \E ch \in Charts, ref \in Refs : FsSaveChart(ch, ref)
    \/ FsWriteContent
    \/ FsWriteConfig
    \/ FsWriteManifest
    \/ updateIndexJson
    \/ \E ref \in Refs : FsLoadChart(ref)
    \/ \E ref \in WireRefs : \E manifest \in Served(ref) : FsPullChart(ref, manifest)
    \/ \E ref \in WireRefs : \E manifest \in Served(ref) : SymPullChart(ref, manifest)
    \/ \E ch \in Charts, ref \in Refs : SymSaveChart(ch, ref)
    \/ SymLinkChart
    \/ SymLinkMeta
    \/ SymLinkContent
    \/ \E ref \in Refs : SymLoadChart(ref)
    \/ \E ref \in WireRefs : PushChart(ref)
    \/ NewProcess
    \/ FreshCache

SpecWire == InitWire /\ [][NextWire]_vars

(***************************************************************************)
(* The listing (helm chart list).  It is a function of what the cache      *)
(* holds, so it is run on its own: SpecList starts from any index.json of  *)
(* up to MaxListLen entries, named or not, with the blobs of its entries   *)
(* present or one of them missing, or from any tree of tag directories,    *)
(* and runs the listing of the generation on it.  "sym0" is the first      *)
(* symlink client (part_018:17-257), which keeps the tree of the sym       *)
(* generation and prints it with ListCharts.                               *)
(***************************************************************************)
MaxListLen == 2

\* the names an index entry may carry, in ascending byte order; "" stands for an
\* entry whose ref.name annotation is empty or absent
SortedNames == <<"", "localhost:5000/a:1", "localhost:5000/b:1">>

\* sort.Strings(keys)
SortStrings(keys) == SelectSeq(SortedNames, LAMBDA k : k \in keys)

\* the orders in which a range over a Go map may visit its keys: any
Orders(keys) ==
    {s \in [1..Cardinality(keys) -> keys] : \A i, j \in DOMAIN s : s[i] = s[j] => i = j}

\* OCIStore.ListReferences: the name map LoadIndex builds, which holds the last
\* entry of every non-empty name
ListReferences(ix) ==
    [n \in {ix[i].ref : i \in DOMAIN ix} \ {""} |-> ix[Max(Positions(ix, n))]]

\* getChartTableRows, v0: the chart descriptorToChart answers is used whatever its
\* error, and it is nil when there is an error
getChartTableRowsV0(ix, bl) ==
    LET refs == ListReferences(ix)
    IN  IF \E n \in DOMAIN refs : manifestDescriptorToChart(bl, refs[n]).err # Nil
        THEN {[err |-> Panic, rows |-> <<>>]}
        ELSE {[err |-> Nil, rows |-> SortStrings(DOMAIN refs)]}

\* getChartTableRows, v1: an entry that does not resolve is skipped, and a row is
\* kept only when LoadChartDescriptorsByRef finds the reference's content layer
getChartTableRowsV1(ix, bl) ==
    LET refs == ListReferences(ix)
        Chart(n) == manifestDescriptorToChart(bl, refs[n])
    IN  IF \E n \in DOMAIN refs : Chart(n).err = Panic
        THEN {[err |-> Panic, rows |-> <<>>]}
        ELSE {[err |-> Nil,
               rows |-> SortStrings({n \in DOMAIN refs :
                                        /\ Chart(n).err = Nil
                                        /\ LoadChartDescriptorsByRef(ix, n).exists})]}

\* Cache.ListReferences and getChartTableRows, v2: the first entry that does not
\* resolve ends the listing with its error
getChartTableRows(ix, bl) ==
    LET refs == ListReferences(ix)
        Fetch(n) == FetchScan(ix, bl, n, 1, [Exists |-> FALSE, err |-> Nil, Chart |-> NilChart])
        failed == {n \in DOMAIN refs : Fetch(n).err # Nil}
    IN  IF failed # {}
        THEN {[err |-> Fetch(n).err, rows |-> <<>>] : n \in failed}
        ELSE {[err |-> Nil, rows |-> SortStrings(DOMAIN refs)]}

\* getRefsSorted, fs: index.json is read entry by entry; the first manifest, config
\* or content file that cannot be read ends the listing with the error
FsGetRefsSorted(file, bl) ==
    LET ix == LoadIndex(file).manifests
        RowErr(e) ==
            LET mb == ReadFile(bl, e.digest)
                um == UnmarshalManifest(mb.bytes)
                cb == ReadFile(bl, um.manifest.config.digest)
                md == UnmarshalMetadata(cb.bytes)
                x == extractLayers(um.manifest.layers)
                st == ReadFile(bl, x.layer.digest)
            IN  IF mb.err # Nil THEN mb.err
                ELSE IF um.err # Nil THEN um.err
                ELSE IF cb.err # Nil THEN cb.err
                ELSE IF md.err # Nil THEN md.err
                ELSE IF x.err # Nil THEN x.err
                ELSE st.err
        named == {i \in DOMAIN ix : ix[i].ref # ""}
        bad == {i \in named : RowErr(ix[i]) # Nil}
    IN  IF file = NoFile THEN {[err |-> ErrIO, rows |-> <<>>]}
        ELSE IF file = CorruptFile THEN {[err |-> ErrCorruptIndex, rows |-> <<>>]}
        ELSE IF bad # {} THEN {[err |-> RowErr(ix[Min(bad)]), rows |-> <<>>]}
        ELSE {[err |-> Nil, rows |-> SortStrings({ix[i].ref : i \in named})]}

\* getAllChartRefs: the references whose tag directory has a chart link and a
\* content link with existing targets; the others are deleted as incomplete
getAllChartRefs(tr, bl) ==
    {FullName(ref) : ref \in {r \in Refs : /\ tr.tags[r].chart # NoLink
                                           /\ tr.tags[r].chart[1] \in tr.charts
                                           /\ tr.tags[r].content # NoLink
                                           /\ tr.tags[r].content[1] \in DOMAIN bl}}

\* getRefsSorted, sym: the same walk, then sort.Strings of the keys
getRefsSorted(tr, bl) == {[err |-> Nil, rows |-> SortStrings(getAllChartRefs(tr, bl))]}

\* the caches the listing is run on
ListImpls == Impls \cup {"sym0"}

ListManifest(ch) == IF impl \in {"fs", "oci"} THEN FsChartManifest(ch) ELSE ChartManifest(ch)

ListEntries ==
    {IndexEntry(n, ManifestDescriptor(ListManifest(ch))) :
        n \in {SortedNames[i] : i \in DOMAIN SortedNames}, ch \in Charts}

\* the blobs a complete save of the chart leaves
ChartBlobs(ch) ==
    IF impl \in {"sym", "sym0"}
    THEN {ConfigBytes(MetaOf(ch)), ArchiveBytes(DashMetadata)}
    ELSE {ManifestBytes(ListManifest(ch)), ConfigBytes(ch), ArchiveBytes(ch)}

TagDirOf(ch) ==
    [chart |-> Link(<<ch.Name, ch.Version>>),
     meta |-> Link(Digest(ConfigBytes(MetaOf(ch)))),
     content |-> Link(Digest(ArchiveBytes(DashMetadata)))]

InitList ==
    /\ impl \in ListImpls
    /\ \E present \in SUBSET Charts, gone \in SUBSET UNION {ChartBlobs(ch) : ch \in Charts} :
        /\ Cardinality(gone) <= 1
        /\ blobs = PutAll(NoBlobs, {Descriptor("", b) : b \in UNION {ChartBlobs(ch) : ch \in present} \ gone})
    /\ IF impl \in {"sym", "sym0"}
       THEN /\ diskIndex = NoFile
            /\ \E tags \in [Refs -> {NoTagDir} \cup {TagDirOf(ch) : ch \in Charts}
                                       \cup {[TagDirOf(ch) EXCEPT !.content = NoLink] : ch \in Charts}] :
                    tree = [tags |-> tags,
                            charts |-> {tags[r].chart[1] : r \in {x \in Refs : tags[x].chart # NoLink}}]
       ELSE /\ tree = NoTree
            /\ \E k \in 0..MaxListLen : \E ix \in [1..k -> ListEntries] :
                    diskIndex = IF k = 0 THEN NoFile ELSE IndexFile(2, ix)
    /\ layout = (diskIndex # NoFile)
    /\ inited = FALSE
    /\ index = <<>>
    /\ pc = "idle"
    /\ op = NoCall
    /\ out = NoOut
    /\ faults = MaxFaults
    /\ memory = {}
    /\ remote = AnyRemote

\* the listing returns r
Listed(r) ==
    /\ pc = "idle"
    /\ out = NoOut
    /\ out' = [ref |-> NoRef, chart |-> NilChart, err |-> r.err, rows |-> r.rows]
    /\ UNCHANGED <<impl, remote, memory, tree, blobs, diskIndex, layout, inited, index, pc, op, faults>>

\* PrintChartTable of the five generations
PrintChartTable ==
    /\ impl \in Impls
    /\ \E r \in CASE impl = "v0" -> getChartTableRowsV0(LoadIndex(diskIndex).manifests, blobs)
                  [] impl = "v1" -> getChartTableRowsV1(LoadIndex(diskIndex).manifests, blobs)
                  [] impl = "v2" -> getChartTableRows(LoadIndex(diskIndex).manifests, blobs)
                  [] impl = "fs" -> FsGetRefsSorted(diskIndex, blobs)
                  [] impl = "sym" -> getRefsSorted(tree, blobs) :
            Listed(r)

\* Cache.ListAllCharts of v0 and v1: entries with a name are skipped, the others
\* are resolved
ListAllCharts ==
    /\ impl \in {"v0", "v1"}
    /\ LET refs == ListReferences(LoadIndex(diskIndex).manifests)
           kept == {n \in DOMAIN refs : n = ""}
       IN  Listed([err |-> Nil, rows |-> SortStrings(kept)])

\* ListCharts of the first symlink client: a row is added for each key as the range
\* over the map visits it
ListCharts ==
    /\ impl = "sym0"
    /\ \E s \in Orders(getAllChartRefs(tree, blobs)) : Listed([err |-> Nil, rows |-> s])

NextList == PrintChartTable \/ ListAllCharts \/ ListCharts

SpecList == InitList /\ [][NextList]_vars

(***************************************************************************)
(* Reference strings of the command line (helm chart save / pull <ref>).   *)
(* A string is a sequence of tokens: a name character, the colon, and      *)
(* "@sha256", which stands for that run of characters.  SpecRef starts     *)
(* from any string of up to MaxRefLen tokens and runs the parsers on it.   *)
(***************************************************************************)
MaxRefLen == 4

RefTokens == {"a", ":", "@sha256"}

\* strings.Split(s, sep): the pieces of s between the separators
RECURSIVE Split(_, _)
Split(s, sep) ==
    IF \A i \in DOMAIN s : s[i] # sep THEN <<s>>
    ELSE LET at == Min({i \in DOMAIN s : s[i] = sep})
         IN  <<SubSeq(s, 1, at - 1)>> \o Split(SubSeq(s, at + 1, Len(s)), sep)

\* strings.Join(parts, sep)
RECURSIVE Join(_, _)
Join(parts, sep) ==
    IF parts = <<>> THEN <<>>
    ELSE IF Len(parts) = 1 THEN parts[1]
    ELSE parts[1] \o <<sep>> \o Join(Tail(parts), sep)

\* validateRef: a string without a colon is refused, every other one passes
validateRef(s) ==
    IF Len(Split(s, ":")) < 2 THEN "ref should be in the format name[:tag]" ELSE Nil

\* getRefParts: the name is all pieces but the last joined again, the tag the last
getRefParts(s) ==
    LET parts == Split(s, ":")
    IN  [Repo |-> Join(SubSeq(parts, 1, Len(parts) - 1), ":"), Tag |-> parts[Len(parts)]]

InitRef ==
    /\ impl = "cli"
    /\ \E n \in 0..MaxRefLen : \E s \in [1..n -> RefTokens] :
            op = [NoCall EXCEPT !.name = "ref", !.ref = s]
    /\ blobs = NoBlobs
    /\ diskIndex = NoFile
    /\ layout = FALSE
    /\ inited = FALSE
    /\ index = <<>>
    /\ pc = "idle"
    /\ out = NoOut
    /\ tree = NoTree
    /\ faults = MaxFaults
    /\ memory = {}
    /\ remote = AnyRemote

\* the command answers err, or goes on with the reference ref
Parsed(by, err, ref) ==
    /\ op.name = "ref"
    /\ op' = [op EXCEPT !.name = by]
    /\ out' = [ref |-> IF err = Nil THEN ref ELSE NoRef, chart |-> NilChart, err |-> err]
    /\ UNCHANGED <<impl, remote, memory, tree, blobs, diskIndex, layout, inited, index, pc, faults>>

\* SaveChart, PullChart, ... of the package functions: validateRef, then getRefParts
RefOfPackage == Parsed("registry", validateRef(op.ref), getRefParts(op.ref))

\* helm chart save <path> <ref>: the same split, written out in the command
chartSaveRun ==
    LET parts == Split(op.ref, ":")
        lastIndex == Len(parts)
    IN  Parsed("chart save",
               IF Len(parts) < 2 THEN "ref should be in the format name[:tag|@digest]" ELSE Nil,
               [Repo |-> Join(SubSeq(parts, 1, lastIndex - 1), ":"), Tag |-> parts[lastIndex]])

\* helm chart pull <ref>
chartPullRun ==
    LET parts == Split(op.ref, ":")
        lastIndex == Len(parts)
    IN  Parsed("chart pull",
               IF Len(parts) < 2 THEN "ref should be in the format name[:tag|@digest]" ELSE Nil,
               [Repo |-> Join(SubSeq(parts, 1, lastIndex - 1), ":"), Tag |-> parts[lastIndex]])

NextRef == RefOfPackage \/ chartSaveRun \/ chartPullRun

SpecRef == InitRef /\ [][NextRef]_vars

(***************************************************************************)
(* Resolving a manifest.  SpecResolve starts from a cache whose index has  *)
(* one entry, for a manifest of any schema version with up to MaxLayers    *)
(* layers of the chart content type or another, of a size or empty, all    *)
(* blobs present, and loads the reference.                                 *)
(***************************************************************************)
MaxLayers == 2

ResolveLayers ==
    {[mediaType |-> mt, digest |-> Digest(ArchiveBytes(ch)), size |-> sz] :
        mt \in {HelmChartContentLayerMediaType, OtherLayerMediaType}, sz \in {0, 1}, ch \in Charts}

ResolveManifests ==
    {[schemaVersion |-> v,
      config |-> Descriptor(HelmChartConfigMediaType, ConfigBytes(CHOOSE ch \in Charts : TRUE)),
      layers |-> ls] :
        v \in {1, 2}, ls \in UNION {[1..k -> ResolveLayers] : k \in 0..MaxLayers}}

InitResolve ==
    /\ impl \in {"v0", "v1", "v2", "fs"}
    /\ \E m \in ResolveManifests, ref \in WireRefs :
        /\ op = [NoCall EXCEPT !.manifest = m]
        /\ diskIndex = IndexFile(2, <<IndexEntry(FullName(ref), ManifestDescriptor(m))>>)
        /\ blobs = PutAll(NoBlobs, {ManifestDescriptor(m), m.config}
                                      \cup {m.layers[i] : i \in DOMAIN m.layers})
    /\ layout = TRUE
    /\ inited = FALSE
    /\ index = <<>>
    /\ pc = "idle"
    /\ out = NoOut
    /\ tree = NoTree
    /\ faults = MaxFaults
    /\ memory = {}
    /\ remote = AnyRemote

NextResolve == \E ref \in WireRefs : LoadChart(ref) \/ FsLoadChart(ref)

SpecResolve == InitResolve /\ [][NextResolve]_vars

(***************************************************************************)
(* The OCIIndex of pkg/registry/index.go:17-240, the index of the          *)
(* filesystemCache of unnamed/part_010 (impl = "oci").  The index is       *)
(* loaded into memory when it is constructed and written back by Save.     *)
(* SpecIndex starts from any index.json of up to MaxListLen entries, named *)
(* or not, with the blobs of the charts present or one of them missing,    *)
(* constructs the index and runs its operations on it, with write          *)
(* failures.                                                               *)
(***************************************************************************)
\* NewOCIIndex: an empty index with SchemaVersion 2; with LoadIfExists the file is
\* read when os.Stat finds it
NewOCIIndex(file, loadIfExists) ==
    IF ~loadIfExists \/ file = NoFile THEN [err |-> Nil, schemaVersion |-> 2, manifests |-> <<>>]
    ELSE IF file = CorruptFile THEN [err |-> ErrCorruptIndex, schemaVersion |-> 0, manifests |-> <<>>]
    ELSE [err |-> Nil, schemaVersion |-> file.schemaVersion, manifests |-> file.manifests]

\* OCIIndex.AddManifest: the descriptor of the manifest is appended
AddManifest(ix, config, layers, name) ==
    Append(ix, IndexEntry(name, ManifestDescriptor(Manifest(config, layers))))

\* OCIIndex.StoreBlob: ioutil.WriteFile to the digest path, whatever is there
StoreBlob(bl, bytes, ok) ==
    IF ok THEN {[err |-> Nil, blobs |-> Put(bl, bytes)]}
    ELSE {[err |-> ErrIO, blobs |-> b] : b \in {bl, Truncated(bl, bytes)}}

\* OCIIndex.GetManifestByRef: the last entry annotated with the name; the errors of
\* reading and decoding its blob are dropped
GetManifestByRef(ix, bl, name) ==
    LET exists == HasRef(ix, name) /\ name # ""
        rd == IF exists THEN ReadFile(bl, ix[Max(Positions(ix, name))].digest)
              ELSE [err |-> ErrIO, bytes |-> PartialBytes]
    IN  [manifest |-> UnmarshalManifest(rd.bytes).manifest, exists |-> exists]

\* filesystemCache.LoadReference of part_010
IndexLoadReference(ix, bl, ref) ==
    LET g == GetManifestByRef(ix, bl, FullName(ref))
    IN  IF ~g.exists THEN [err |-> ErrRefNotFound, layers |-> <<>>]
        ELSE [err |-> Nil, layers |-> g.manifest.layers]

\* OCIIndex.DeleteManifestByRef: the loop reads the annotations of manifest, the
\* pointer to the entry found so far, which is nil until an entry is found; found
\* is what manifest points to (<<>> for nil)
RECURSIVE DeleteScan(_, _, _, _, _)
DeleteScan(ix, name, i, found, kept) ==
    IF i > Len(ix) THEN [err |-> Nil, manifests |-> kept, manifest |-> found, deleted |-> found # <<>>]
    ELSE IF found = <<>>
    THEN [err |-> Panic, manifests |-> ix, manifest |-> found, deleted |-> FALSE]
    ELSE IF found[1].ref = ""
    THEN DeleteScan(ix, name, i + 1, found, kept)
    ELSE IF found[1].ref = name
    THEN DeleteScan(ix, name, i + 1, <<ix[i]>>, kept)
    ELSE DeleteScan(ix, name, i + 1, found, Append(kept, ix[i]))

DeleteManifestByRef(ix, name) == DeleteScan(ix, name, 1, <<>>, <<>>)

\* what the operations of SpecIndex are applied to: the entries are those of one
\* chart under any name, the blobs those of every chart
IndexNames == {FullName(r) : r \in Refs}
IndexChart == CHOOSE ch \in Charts : TRUE
IndexEntries ==
    {IndexEntry(n, ManifestDescriptor(FsChartManifest(IndexChart))) : n \in IndexNames \cup {""}}

IndexInit ==
    /\ impl = "oci"
    /\ \E gone \in SUBSET UNION {ChartBlobs(ch) : ch \in Charts} :
        /\ Cardinality(gone) <= 1
        /\ blobs = PutAll(NoBlobs, {Descriptor("", b) : b \in UNION {ChartBlobs(ch) : ch \in Charts} \ gone})
    /\ \E k \in 0..MaxListLen : \E ix \in [1..k -> IndexEntries] :
            diskIndex = IF k = 0 THEN NoFile ELSE IndexFile(2, ix)
    /\ layout = (diskIndex # NoFile)
    /\ inited = FALSE
    /\ index = <<>>
    /\ pc = "idle"
    /\ op = NoCall
    /\ out = NoOut
    /\ tree = NoTree
    /\ faults = 0
    /\ memory = {}
    /\ remote = AnyRemote

\* the cache is constructed: its index is a NewOCIIndex of the root directory
IndexOpen ==
    /\ impl = "oci"
    /\ ~inited
    /\ \E loadIfExists \in BOOLEAN :
        LET n == NewOCIIndex(diskIndex, loadIfExists)
        IN  /\ inited' = (n.err = Nil)
            /\ index' = n.manifests
            /\ op' = [NoCall EXCEPT !.name = "New", !.err = n.err, !.exists = loadIfExists]
    /\ out' = NoOut
    /\ UNCHANGED <<impl, remote, memory, tree, blobs, diskIndex, layout, pc, faults>>

\* OCIIndex.Save: ensureOCILayoutFile, then ioutil.WriteFile of index.json
IndexSaved(ix, okLayout, okIndex) ==
    IF ~layout /\ ~okLayout
    THEN /\ layout' \in BOOLEAN
         /\ diskIndex' = diskIndex
    ELSE /\ layout' = TRUE
         /\ SaveIndex(ix, okIndex)

SaveErr(okLayout, okIndex) ==
    IF (~layout /\ ~okLayout) \/ ~okIndex THEN ErrIO ELSE Nil

IndexSave ==
    /\ impl = "oci"
    /\ inited
    /\ \E ok \in Outcomes :
        /\ Spend(ok)
        /\ IndexSaved(index, ok, ok)
        /\ op' = [NoCall EXCEPT !.name = "Save", !.err = SaveErr(ok, ok), !.saves = 1]
    /\ out' = NoOut
    /\ UNCHANGED <<impl, remote, memory, tree, blobs, inited, index, pc>>

\* AddManifest of the manifest of a chart under a name
IndexAddManifest(ch, name) ==
    /\ impl = "oci"
    /\ inited
    /\ Len(index) < MaxIndexLen
    /\ index' = AddManifest(index, FsChartManifest(ch).config, FsChartManifest(ch).layers, name)
    /\ op' = [NoCall EXCEPT !.name = "Add", !.chart = ch, !.manifest = FsChartManifest(ch)]
    /\ out' = NoOut
    /\ UNCHANGED <<impl, remote, memory, tree, blobs, diskIndex, layout, inited, pc, faults>>

\* filesystemCache.DeleteReference of part_010: DeleteManifestByRef, then Save, whose
\* error is dropped; nil is returned
IndexDeleteReference(ref) ==
    /\ impl = "oci"
    /\ inited
    /\ LET d == DeleteManifestByRef(index, FullName(ref))
           call == [NoCall EXCEPT !.name = "Delete", !.ref = ref,
                                  !.had = HasRef(index, FullName(ref))]
       IN  IF d.err = Panic
           THEN /\ op' = [call EXCEPT !.err = Panic]
                /\ inited' = FALSE
                /\ index' = <<>>
                /\ UNCHANGED <<diskIndex, layout, faults>>
           ELSE /\ op' = [call EXCEPT !.exists = d.deleted, !.saves = 1]
                /\ index' = d.manifests
                /\ inited' = inited
                /\ \E ok \in Outcomes :
                    /\ Spend(ok)
                    /\ IndexSaved(d.manifests, ok, ok)
    /\ out' = NoOut
    /\ UNCHANGED <<impl, remote, memory, tree, blobs, pc>>

\* LoadReference of part_010
IndexLookup(ref) ==
    /\ impl = "oci"
    /\ inited
    /\ out = NoOut
    /\ LET l == IndexLoadReference(index, blobs, ref)
       IN  out' = [ref |-> ref, chart |-> NilChart, err |-> l.err, layers |-> l.layers]
    /\ UNCHANGED <<impl, remote, memory, tree, blobs, diskIndex, layout, inited, index, pc, op, faults>>

\* filesystemCache.StoreReference of part_010 after oras.Pull has put the config and
\* the layers of the manifest into the memory store: the content layer and the
\* config are written with StoreBlob; the result exists is never assigned
IndexStoreReference(ref, manifest) ==
    /\ impl = "oci"
    /\ inited
    /\ LET x == extractLayers(manifest.layers)
           call == [NoCall EXCEPT !.name = "Store", !.ref = ref, !.manifest = manifest]
       IN  IF x.err # Nil
           THEN /\ op' = [call EXCEPT !.err = x.err]
                /\ UNCHANGED <<blobs, faults>>
           ELSE \E ok \in Outcomes :
                /\ Spend(ok)
                /\ \/ \E c \in StoreBlob(blobs, RemoteBytes(x.layer), ok) :
                        /\ blobs' = IF ok THEN Put(c.blobs, RemoteBytes(manifest.config))
                                    ELSE c.blobs
                        /\ op' = [call EXCEPT !.err = c.err]
                   \/ /\ ~ok
                      /\ \E c \in StoreBlob(Put(blobs, RemoteBytes(x.layer)),
                                            RemoteBytes(manifest.config), FALSE) :
                            /\ blobs' = c.blobs
                            /\ op' = [call EXCEPT !.err = c.err]
    /\ out' = NoOut
    /\ UNCHANGED <<impl, remote, memory, tree, diskIndex, layout, inited, index, pc>>

\* TableRows of part_010: getRefsSorted walks the index held in memory as the fs
\* listing walks the one it reads from index.json
IndexTableRows ==
    /\ impl = "oci"
    /\ inited
    /\ \E r \in FsGetRefsSorted(IndexFile(2, index), blobs) : Listed(r)

\* the manifests whose config and layers a pull hands to StoreReference
IndexManifests ==
    {FsChartManifest(ch) : ch \in Charts} \cup {ForeignManifest(CHOOSE ch \in Charts : TRUE)}

NextIndex ==
    \/ IndexOpen
    \/ \E ref \in WireRefs, manifest \in IndexManifests : IndexStoreReference(ref, manifest)
    \/ IndexTableRows
    \/ IndexSave
    \/ \E name \in IndexNames \cup {""} : IndexAddManifest(IndexChart, name)
    \/ \E ref \in Refs : IndexDeleteReference(ref)
    \/ \E ref \in Refs : IndexLookup(ref)

SpecIndex == IndexInit /\ [][NextIndex]_vars

(***************************************************************************)
(* Two Cache instances of the v2 generation over one root directory.  Each *)
(* keeps the OCIStore it opened at its first call (Cache.Init), with the   *)
(* index it loaded then; their calls never overlap, so a call is one step; *)
(* no write fails.  Here index and inited hold one value per instance.     *)
(***************************************************************************)
Caches == {"c1", "c2"}

\* Cache.Init: the instance's store, opened from index.json if it has none yet
CacheInit(c) == IF inited[c] THEN index[c] ELSE LoadIndex(diskIndex).manifests

InitShared ==
    /\ impl = "v2"
    /\ blobs = NoBlobs
    /\ diskIndex = NoFile
    /\ layout = FALSE
    /\ inited = [c \in Caches |-> FALSE]
    /\ index = [c \in Caches |-> <<>>]
    /\ pc = "idle"
    /\ op = NoCall
    /\ out = NoOut
    /\ tree = NoTree
    /\ faults = MaxFaults
    /\ memory = {}
    /\ remote = AnyRemote

\* NewCache: the instance is dropped and made anew, with no store
NewCache(c) ==
    /\ pc = "idle"
    /\ inited[c]
    /\ inited' = [inited EXCEPT ![c] = FALSE]
    /\ index' = [index EXCEPT ![c] = <<>>]
    /\ UNCHANGED <<impl, remote, memory, tree, blobs, diskIndex, layout, pc, op, out, faults>>

\* Cache.FetchReference on an instance
CacheFetchReference(c, ref) ==
    /\ pc = "idle"
    /\ LET ix == CacheInit(c)
           r == FetchReference(ix, blobs, ref)
       IN  /\ index' = [index EXCEPT ![c] = ix]
           /\ out' = [ref |-> ref, chart |-> r.Chart,
                      err |-> IF r.err # Nil THEN r.err
                              ELSE IF r.Exists THEN Nil ELSE ErrChartNotFound]
    /\ out' # out \/ ~inited[c]
    /\ inited' = [inited EXCEPT ![c] = TRUE]
    /\ layout' = TRUE
    /\ UNCHANGED <<impl, remote, memory, tree, blobs, diskIndex, pc, op, faults>>

\* Cache.StoreReference on an instance: the three blobs, AddReference, SaveIndex
CacheStoreReference(c, ch, ref) ==
    /\ pc = "idle"
    /\ LET ix == AddReference(CacheInit(c), FullName(ref), ManifestDescriptor(ChartManifest(ch)))
       IN  /\ index' = [index EXCEPT ![c] = ix]
           /\ diskIndex' = IndexFile(2, ix)
    /\ blobs' = Put(Put(Put(blobs, ConfigBytes(ch)), ArchiveBytes(ch)),
                    ManifestBytes(ChartManifest(ch)))
    /\ inited' = [inited EXCEPT ![c] = TRUE]
    /\ layout' = TRUE
    /\ op' = [NoCall EXCEPT !.name = "Save", !.ref = ref, !.chart = ch, !.arg = ch,
                            !.saves = 1,
                            !.exists = FetchReference(CacheInit(c), blobs, ref).Exists]
    /\ UNCHANGED <<impl, remote, memory, tree, pc, out, faults>>

\* Cache.DeleteReference on an instance: FetchReference, then DeleteReference and
\* SaveIndex if the instance's index has the reference
CacheDeleteReference(c, ref) ==
    /\ pc = "idle"
    /\ LET ix == CacheInit(c)
           r == FetchReference(ix, blobs, ref)
       IN  IF r.err # Nil \/ ~r.Exists
           THEN /\ index' = [index EXCEPT ![c] = ix]
                /\ op' = [NoCall EXCEPT !.name = "Remove", !.ref = ref,
                                        !.err = IF r.err # Nil THEN r.err ELSE ErrChartNotFound]
                /\ UNCHANGED diskIndex
           ELSE /\ index' = [index EXCEPT ![c] = DeleteReference(ix, FullName(ref))]
                /\ diskIndex' = IndexFile(2, index'[c])
                /\ op' = [NoCall EXCEPT !.name = "Remove", !.ref = ref, !.exists = TRUE,
                                        !.saves = 1]
    /\ inited' = [inited EXCEPT ![c] = TRUE]
    /\ layout' = TRUE
    /\ UNCHANGED <<impl, remote, memory, tree, blobs, pc, out, faults>>

NextShared ==
    \/ \E c \in Caches : NewCache(c)
    \/ \E c \in Caches, ref \in Refs : CacheFetchReference(c, ref)
    \/ \E c \in Caches, ch \in Charts, ref \in Refs : CacheStoreReference(c, ch, ref)
    \/ \E c \in Caches, ref \in Refs : CacheDeleteReference(c, ref)

SpecShared == InitShared /\ [][NextShared]_vars

(***************************************************************************)
(* The chart-repository upload (pkg/repo/provider/chartmuseum): Push calls *)
(* uploadPackage with an empty token; uploadPackage POSTs the package and, *)
(* on a 401 to a request without token, asks the realm of the              *)
(* WWW-Authenticate header for an access token and calls itself with it.   *)
(* The server's answers are free.  op.attempts counts the POSTs of the     *)
(* package, up to MaxAttempts; op.tokens the token requests, likewise;     *)
(* op.status is the status code of the answer the call returned on.        *)
(***************************************************************************)
MaxAttempts == 3

StatusCreated == 201
StatusUnauthorized == 401
\* the status codes a server may answer with: created, unauthorized, and one other
UploadStatuses == {StatusCreated, StatusUnauthorized, 409}

ErrNoAuthHeader == "missing WWW-Authenticate header"
ErrBadAuthHeader == "malformed WWW-Authenticate header"
ErrNoRealm == "No realm in WWW-Authenticate header"
ErrNoService == "No service in WWW-Authenticate header"
ErrNoScope == "No scope in WWW-Authenticate header"
ErrBadJSON == "invalid character"
ErrUnparsedResponse == "could not properly parse response JSON"
ErrResponse == "error of the response"

Namespaces == {"", "org"}
AccessTokens == {"", "xyz"}
AuthKeys == {"realm", "service", "scope"}

\* a WWW-Authenticate header: absent, or with its number of "Bearer " and the keys
\* that parse as key="value"
AuthHeaders ==
    {[present |-> FALSE, bearers |-> 0, keys |-> {}]}
        \cup {[present |-> TRUE, bearers |-> b, keys |-> K] : b \in 0..2, K \in SUBSET AuthKeys}

\* the checks of the header, in the order uploadPackage makes them
AuthHeaderErr(h) ==
    IF ~h.present THEN ErrNoAuthHeader
    ELSE IF h.bearers # 1 THEN ErrBadAuthHeader
    ELSE IF "realm" \notin h.keys THEN ErrNoRealm
    ELSE IF "service" \notin h.keys THEN ErrNoService
    ELSE IF "scope" \notin h.keys THEN ErrNoScope
    ELSE Nil

\* what is returned for a response that is not a 401 to a tokenless request: nil
\* for 201, else an error made of the status and the body
StatusErr(status, parses) ==
    IF status = StatusCreated THEN Nil
    ELSE IF parses THEN ErrResponse ELSE ErrUnparsedResponse

Count(n) == IF n < MaxAttempts THEN n + 1 ELSE n

InitUpload ==
    /\ impl = "chartmuseum"
    /\ blobs = NoBlobs
    /\ diskIndex = NoFile
    /\ layout = FALSE
    /\ inited = FALSE
    /\ index = <<>>
    /\ pc = "idle"
    /\ op = NoCall
    /\ out = NoOut
    /\ tree = NoTree
    /\ faults = 0
    /\ memory = {}
    /\ remote = AnyRemote

\* ChartMuseum.Push: uploadPackage(..., token = "")
ChartMuseumPush(namespace) ==
    /\ pc = "idle"
    /\ pc' = "upload"
    /\ op' = [name |-> "uploadPackage", namespace |-> namespace, token |-> "",
              attempts |-> 0, tokens |-> 0, status |-> 0, err |-> Nil]
    /\ UNCHANGED <<impl, remote, memory, tree, blobs, diskIndex, layout, inited, index, out, faults>>

\* uploadPackage: the POST of the package and what it makes of the answer
uploadPackage ==
    /\ pc = "upload"
    /\ LET sent == [op EXCEPT !.attempts = Count(@)]
       IN  \/ /\ pc' = "idle"                                   \* client.Do fails
              /\ op' = [sent EXCEPT !.err = ErrRemote]
           \/ \E status \in UploadStatuses,
                 h \in AuthHeaders, parses \in BOOLEAN :
                 IF op.token = "" /\ status = StatusUnauthorized
                 THEN IF AuthHeaderErr(h) # Nil
                      THEN /\ pc' = "idle"
                           /\ op' = [sent EXCEPT !.err = AuthHeaderErr(h)]
                      ELSE /\ pc' = "token"
                           /\ op' = [sent EXCEPT !.token = "xyz"]
                 ELSE /\ pc' = "idle"
                      /\ op' = [sent EXCEPT !.status = status,
                                             !.err = StatusErr(status, parses)]
    /\ UNCHANGED <<impl, remote, memory, tree, blobs, diskIndex, layout, inited, index, out, faults>>

\* uploadPackage, the 401 branch: the token request to the realm, then the call of
\* uploadPackage with the access token of the answer
uploadPackageToken ==
    /\ pc = "token"
    /\ LET asked == [op EXCEPT !.tokens = Count(@)]
       IN  \/ /\ pc' = "idle"                                   \* client.Do or ReadAll fails
              /\ op' = [asked EXCEPT !.err = ErrRemote]
           \/ /\ pc' = "idle"                                   \* the body is not JSON
              /\ op' = [asked EXCEPT !.err = ErrBadJSON]
           \/ \E token \in AccessTokens :
                 /\ pc' = "upload"
                 /\ op' = [asked EXCEPT !.token = token]
    /\ UNCHANGED <<impl, remote, memory, tree, blobs, diskIndex, layout, inited, index, out, faults>>

NextUpload ==
    \/ \E namespace \in Namespaces : ChartMuseumPush(namespace)
    \/ uploadPackage
    \/ uploadPackageToken

SpecUpload == InitUpload /\ [][NextUpload]_vars

\* every step of a call that has started is taken in the end: the HTTP requests are
\* answered or fail
FairUpload == SpecUpload /\ WF_vars(uploadPackage) /\ WF_vars(uploadPackageToken)

(***************************************************************************)
(* Vocabulary of the properties.                                           *)
(***************************************************************************)
\* the index as index.json holds it
DiskEntries == LoadIndex(diskIndex).manifests

EntrySet(ix) == {ix[i] : i \in DOMAIN ix}

\* every index entry there is: on disk and in the open store
Indexed == EntrySet(DiskEntries) \cup EntrySet(index)

Present(digest) == digest \in DOMAIN blobs

IsManifestBytes(bytes) == "json" \in DOMAIN bytes /\ bytes.json = "manifest"

\* the digests a manifest names: its config and its layers
NamedBy(manifest) ==
    {manifest.config.digest} \cup {manifest.layers[i].digest : i \in DOMAIN manifest.layers}

\* the reference has an entry for the call that starts now
HasEntry(ref) ==
    IF impl = "sym" THEN tree.tags[ref] # NoTagDir ELSE HasRef(CacheIndex, FullName(ref))

IsNotFound(err) == err \in {ErrChartNotFound, ErrNoSuchChart, ErrRefNotFound}

(***************************************************************************)
(* C1.  After any sequence of Save, Pull and Remove, an index holds at     *)
(* most one entry per reference name: storing under a name that has an     *)
(* entry replaces it.                                                      *)
(***************************************************************************)
C1_OneEntryPerRef ==
    \A ref \in Refs :
        /\ Cardinality(Positions(DiskEntries, FullName(ref))) <= 1
        /\ Cardinality(Positions(index, FullName(ref))) <= 1

(***************************************************************************)
(* C2.  Between API calls, after completed calls whether they succeeded or *)
(* failed, every manifest descriptor listed in an index names a blob that  *)
(* exists in the blob store.                                               *)
(***************************************************************************)
C2_IndexedManifestExists ==
    pc = "idle" => \A e \in Indexed : Present(e.digest)

\* a call has failed, and the index lists a manifest
C2_Witness ==
    /\ pc = "idle"
    /\ op.name \in {"Save", "Pull", "Remove"}
    /\ op.err # Nil
    /\ DiskEntries # <<>>
    /\ \A e \in Indexed : Present(e.digest)

(***************************************************************************)
(* C3.  Whenever a manifest blob is present in the store, the config blob  *)
(* and every layer blob the manifest names are present too, in every state *)
(* Save, Pull and Remove reach.                                            *)
(***************************************************************************)
C3_ManifestClosure ==
    pc = "idle" =>
        \A d \in DOMAIN blobs :
            IsManifestBytes(blobs[d]) => \A c \in NamedBy(blobs[d].Manifest) : Present(c)

(***************************************************************************)
(* C4.  Within one Store or Pull the blob writes complete before the index *)
(* is updated and saved: at every step, a reader that finds a reference in *)
(* index.json finds the manifest it names and every blob that names.       *)
(***************************************************************************)
C4_IndexedRefHasItsBlobs ==
    \A e \in EntrySet(DiskEntries) :
        /\ Present(e.digest)
        /\ IsManifestBytes(blobs[e.digest])
        /\ \A c \in NamedBy(blobs[e.digest].Manifest) : Present(c)

(***************************************************************************)
(* C5.  For every chart c and reference r, Save(c, r) followed by Load(r)  *)
(* returns a chart whose metadata, name and version included, equals c's.  *)
(***************************************************************************)
C5_SaveThenLoad ==
    (pc = "idle" /\ op.name = "Save" /\ op.err = Nil /\ out.ref = op.ref)
        => (out.err = Nil /\ out.chart = op.chart)

(***************************************************************************)
(* C6.  Saving the same chart under the same reference twice is            *)
(* idempotent: the second Save succeeds and leaves the index and the blobs *)
(* exactly as the first Save left them.  (The digests a Save reports are a *)
(* function of the chart.)  Steps in which a write fails are set aside.    *)
(***************************************************************************)
\* the step is one of a SaveChart call, and no write fails in it
IsSaveStep == op'.name = "Save" /\ (pc # "idle" \/ pc' # "idle") /\ faults' = faults

C6_SecondSaveIdempotent ==
    [][(IsSaveStep /\ op'.prev = op'.chart)
         => (op'.err = Nil /\ blobs' = blobs /\ diskIndex' = diskIndex /\ tree' = tree)]_vars

(***************************************************************************)
(* C7.  After Save(c1, r) then Save(c2, r) with c1 # c2, Load(r) returns   *)
(* c2 and the blobs written for c1 are still in the store.                 *)
(***************************************************************************)
\* the blobs a successful Save of ch writes
SavedBlobs(ch) ==
    IF impl = "fs"
    THEN {ArchiveBytes(ch), ConfigBytes(ch), ManifestBytes(FsChartManifest(ch))}
    ELSE IF impl = "sym"
    THEN {ConfigBytes(MetaOf(ch)), ArchiveBytes(DashMetadata)}
    ELSE {ConfigBytes(ch), ArchiveBytes(ch), ManifestBytes(ChartManifest(ch))}

C7_ReplaceKeepsOldBlobs ==
    (pc = "idle" /\ op.name = "Save" /\ op.err = Nil /\ op.prev \in Charts /\ op.prev # op.chart)
        => /\ \A b \in SavedBlobs(op.prev) : Present(Digest(b)) /\ blobs[Digest(b)] = b
           /\ out.ref = op.ref => (out.err = Nil /\ out.chart = op.chart)

(***************************************************************************)
(* C8.  Remove(r) on a reference that has an entry removes only that       *)
(* entry: no blob is deleted, the entries of the other references are      *)
(* unchanged, and afterwards the listing has no row for r.  Steps in which *)
(* a write fails are set aside.                                            *)
(***************************************************************************)
\* the step is a whole RemoveChart(ref) call
IsRemove(ref) ==
    \/ RemoveChart(ref)
    \/ \E tmpFiles \in BOOLEAN : FsRemoveChart(ref, tmpFiles)
    \/ SymRemoveChart(ref)

\* what the cache holds for a reference
EntriesOf(ref) ==
    IF impl = "sym" THEN <<tree.tags[ref]>>
    ELSE SelectSeq(CacheIndex, LAMBDA e : e.ref = FullName(ref))

C8_RemoveDropsOnlyTheEntry ==
    [][\A ref \in Refs :
         (IsRemove(ref) /\ HasEntry(ref) /\ faults' = faults)
            => /\ ~HasEntry(ref)'
               /\ ~HasRef(DiskEntries', FullName(ref))
               /\ blobs' = blobs
               /\ \A other \in Refs \ {ref} : EntriesOf(other)' = EntriesOf(other)]_vars

(***************************************************************************)
(* C9.  Remove(r) returns a not-found error if and only if there was no    *)
(* entry for r before the call; when it returns not-found the index and    *)
(* the blobs are unchanged; when r had an entry it reports success.  Steps *)
(* in which a write fails, and an index.json that cannot be decoded, are    *)
(* set aside.                                                              *)
(***************************************************************************)
C9_RemoveNotFoundIffAbsent ==
    [][\A ref \in Refs :
         (IsRemove(ref) /\ faults' = faults /\ diskIndex # CorruptFile)
            => /\ IsNotFound(op'.err) <=> ~HasEntry(ref)
               /\ IsNotFound(op'.err)
                    => (blobs' = blobs /\ diskIndex' = diskIndex /\ tree' = tree)
               /\ HasEntry(ref) => op'.err = Nil]_vars

(***************************************************************************)
(* C10.  Load(r) for a reference with no entry returns a not-found error,  *)
(* and never a chart (nil or empty) together with a nil error.  An         *)
(* index.json that cannot be decoded is set aside.                         *)
(***************************************************************************)
\* the step is a whole LoadChart(ref) call
IsLoad(ref) == LoadChart(ref) \/ FsLoadChart(ref) \/ SymLoadChart(ref)

C10_LoadMissingIsNotFound ==
    [][\A ref \in Refs :
         (IsLoad(ref) /\ ~HasEntry(ref) /\ diskIndex # CorruptFile)
            => IsNotFound(out'.err)]_vars


(***************************************************************************)
(* Vocabulary of the pull and push properties.                             *)
(***************************************************************************)
\* a PullChart call has returned nil and nothing was stored or removed since
Pulled == pc = "idle" /\ op.name = "Pull" /\ op.err = Nil

\* the digests of a manifest's layers
LayerDigests(manifest) == {manifest.layers[i].digest : i \in DOMAIN manifest.layers}

\* the cache holds the reference as an entry that points to the manifest
PointsTo(ref, manifest) ==
    IF impl = "sym"
    THEN /\ ref \in Refs
         /\ tree.tags[ref].chart # NoLink
         /\ tree.tags[ref].meta # NoLink
         /\ tree.tags[ref].content # NoLink
         /\ {tree.tags[ref].meta[1], tree.tags[ref].content[1]} = LayerDigests(manifest)
    ELSE \E e \in EntrySet(DiskEntries) :
            e.ref = FullName(ref) /\ e.digest = Digest(ManifestBytes(manifest))

(***************************************************************************)
(* C11.  After a successful Pull(r) the index has an entry for r that      *)
(* points to the pulled manifest, the blobs of that manifest are in the    *)
(* store, and Load(r) succeeds.                                            *)
(***************************************************************************)
C11_PullThenIndexed ==
    Pulled =>
        /\ PointsTo(op.ref, op.manifest)
        /\ \A d \in LayerDigests(op.manifest) : Present(d)
        /\ (out.ref = op.ref => out.err = Nil)

(***************************************************************************)
(* C12.  Pull with a reference whose tag is empty fails with an            *)
(* invalid-reference error before any request goes to the registry, and    *)
(* leaves the index and the blobs as they were.                            *)
(***************************************************************************)
\* the step is the start of a PullChart(ref) call
IsPull(ref) ==
    \/ PullChartStub(ref)
    \/ \E manifest \in Served(ref) : PullChart(ref, manifest)
    \/ \E manifest \in Served(ref) : FsPullChart(ref, manifest)

C12_EmptyTagRejected ==
    [][IsPull(NoTagRef)
         => /\ op'.err = ErrTagRequired
            /\ pc' = "idle"
            /\ blobs' = blobs /\ diskIndex' = diskIndex /\ index' = index]_vars

(***************************************************************************)
(* C13.  Whenever Save, Pull, Push or Remove returns an error, the index,  *)
(* in memory and on disk, is what it was before the call (blobs written    *)
(* before the failure may remain).  The index is written only in the step  *)
(* that returns, except for the links of the symlink tree, for which a     *)
(* call that found the cache empty is looked at.                           *)
(***************************************************************************)
\* the step belongs to a Save, Pull, Push or Remove call
IsCallStep ==
    \/ \E ch \in Charts, ref \in Refs :
            SaveChart(ch, ref) \/ FsSaveChart(ch, ref) \/ SymSaveChart(ch, ref)
    \/ saveChartConfig \/ saveChartContentLayer \/ saveChartManifest \/ SaveReference
    \/ FsWriteContent \/ FsWriteConfig \/ FsWriteManifest \/ updateIndexJson
    \/ SymLinkChart \/ SymLinkMeta \/ SymLinkContent
    \/ \E ref \in Refs : IsRemove(ref)
    \/ \E ref \in Refs \cup {NoTagRef} : IsPull(ref)
    \/ \E ref \in Refs : \E manifest \in Served(ref) : SymPullChart(ref, manifest)
    \/ PullManifest \/ PullBlobs \/ PullReference
    \/ \E ref \in Refs : PushChart(ref)

\* the step is the one in which such a call returns an error
ReturnsError == IsCallStep /\ pc' = "idle" /\ op'.err # Nil

C13_ErrorLeavesIndex ==
    [][ReturnsError
         => /\ CacheIndex' = CacheIndex
            /\ LoadIndex(diskIndex') = LoadIndex(diskIndex)
            /\ tree'.tags = tree.tags
            /\ op'.fresh => (LoadIndex(diskIndex') = LoadIndex(NoFile) /\ tree'.tags = NoTree.tags)]_vars

(***************************************************************************)
(* C14.  When the registry serves a manifest that fails validation (here:  *)
(* its layer is of a wrong media type), Pull returns a malformed-manifest  *)
(* error and neither the index nor the blob store changes.  Looked at for  *)
(* a pull into an empty cache, where unchanged means still empty; a pull   *)
(* that failed to reach the registry, to open the cache or to write a file  *)
(* is set aside.                                                           *)
(***************************************************************************)
\* the manifest passes the validation the claim lists
WellFormed(manifest) ==
    /\ manifest.schemaVersion = 2
    /\ IF impl = "sym"
       THEN /\ Len(manifest.layers) = 2
            /\ {manifest.layers[i].mediaType : i \in DOMAIN manifest.layers} = SymKnownMediaTypes
       ELSE /\ Len(manifest.layers) = 1
            /\ manifest.layers[1].mediaType = HelmChartContentLayerMediaType
    /\ \A i \in DOMAIN manifest.layers : manifest.layers[i].size > 0

IsMalformedManifest(err) == err \in {ErrLayerCount, ErrNoContentLayer, ErrNoAnnotation}

\* a PullChart call that was served a manifest has returned
PullReturned ==
    /\ pc = "idle"
    /\ op.name = "Pull"
    /\ op.manifest # ZeroManifest
    /\ op.err \notin {ErrRemote, ErrIO, ErrKilled, ErrCorruptIndex, ErrTagRequired}

C14_MalformedManifestRejected ==
    (PullReturned /\ ~WellFormed(op.manifest))
        => /\ IsMalformedManifest(op.err)
           /\ op.fresh => (blobs = NoBlobs /\ DiskEntries = <<>> /\ tree.tags = NoTree.tags)

(***************************************************************************)
(* C15.  When the bytes downloaded for a layer do not hash to the digest   *)
(* in its descriptor, Pull returns a digest-mismatch error, the downloaded *)
(* bytes are not stored under that digest (nor anywhere), and the index    *)
(* is left as it was, in memory and on disk.                               *)
(***************************************************************************)
\* a PullChart call was served bytes that are not those of the layer op.bad
ServedCorrupt == op.name = "Pull" /\ op.bad # NoDescriptor

\* the step is the one in which that download ends
IsCorruptDownload == op' # op /\ ServedCorrupt'

PulledAfresh ==
    /\ Tracked
    /\ Pulled
    /\ op.fresh
    /\ remote[op.ref].from \in Charts

C16_WireRoundTrip ==
    (PulledAfresh /\ out.ref = op.ref)
        => (out.err = Nil /\ out.chart = remote[op.ref].from)

(***************************************************************************)
(* C17.  Push(r) fails with a not-found error, uploading nothing, exactly  *)
(* when the index has no entry for r; so for a reference that is in the    *)
(* index with its blobs present, Push does not report not-found.           *)
(***************************************************************************)
C17_PushNotFoundIffAbsent ==
    [][\A ref \in WireRefs :
         PushChart(ref)
            => /\ IsNotFound(op'.err) <=> ~HasEntry(ref)
               /\ IsNotFound(op'.err) => remote' = remote]_vars

(***************************************************************************)
(* C18.  If the process is killed at any point of a Save or Pull before    *)
(* the index save (after a blob write included), then on restart the cache *)
(* loads without error if it did before the call, the interrupted          *)
(* reference is reported only if the cache held it before the call, and no *)
(* index entry points to a missing blob.                                   *)
(***************************************************************************)
\* a Save or Pull was killed, and no call that stores or removes was made since
Interrupted == op.err = ErrKilled /\ op.name \in {"Save", "Pull"}

C18_KillLeavesCacheUsable ==
    Interrupted
        => /\ op.sound => LoadIndex(diskIndex).err = Nil
           /\ Reported(op.ref) => op.had
           /\ \A e \in EntrySet(DiskEntries) : Present(e.digest)

(***************************************************************************)
(* C19.  The index file is replaced atomically: whatever happens during an *)
(* index save, index.json afterwards holds the complete previous index or  *)
(* the complete new one, never a truncated, empty or partial file.         *)
(***************************************************************************)
C19_IndexFileNeverPartial == diskIndex # CorruptFile

(***************************************************************************)
(* C20.  In every reachable state each blob file's name is the SHA-256     *)
(* digest of the bytes it holds, blobs written by Pull from descriptors    *)
(* the registry supplied included.                                         *)
(***************************************************************************)
C20_BlobNameIsDigest == \A d \in DOMAIN blobs : Digest(blobs[d]) = d


(***************************************************************************)
(* C21.  The oci-layout marker exists exactly when the cache has been      *)
(* written: a Load on a cache that was never written does not create it,   *)
(* and every Save or Pull that returns without error leaves it present.    *)
(***************************************************************************)
\* nothing was ever written below the cache's root directory
NeverWritten == blobs = NoBlobs /\ diskIndex = NoFile /\ tree = NoTree /\ ~layout

\* the step is the one in which a Save or Pull call returns nil
ReturnsStored ==
    (pc # "idle" \/ op' # op) /\ pc' = "idle" /\ op'.name \in {"Save", "Pull"} /\ op'.err = Nil

C21_LayoutIffWritten ==
    [][/\ \A ref \in Refs : (IsLoad(ref) /\ NeverWritten) => ~layout'
       /\ ReturnsStored => layout']_vars


(***************************************************************************)
(* Vocabulary of the listing properties (SpecList).                        *)
(***************************************************************************)
\* a listing has returned
HasListed == "rows" \in DOMAIN out

\* the first column of the rows it printed
Rows == IF HasListed THEN out.rows ELSE <<>>

\* the place of a name in the ascending order of names
Rank(name) == CHOOSE i \in DOMAIN SortedNames : SortedNames[i] = name

(***************************************************************************)
(* C22.  The rows that the listing prints are in ascending lexicographic   *)
(* order of the reference, whatever the index holds.                       *)
(***************************************************************************)
C22_ListSorted ==
    \A i, j \in DOMAIN Rows : i < j => Rank(Rows[i]) < Rank(Rows[j])


\* the entry's manifest, config and content layer are all in the store
Resolves(e) ==
    /\ Present(e.digest)
    /\ \A d \in NamedBy(UnmarshalManifest(blobs[e.digest]).manifest) : Present(d)

\* every entry of the cache resolves: each index entry, or (symlink tree) each tag
\* directory has its three links and their targets
AllResolve ==
    IF impl \in {"sym", "sym0"}
    THEN \A r \in Refs :
            tree.tags[r] # NoTagDir
                => /\ tree.tags[r].chart # NoLink
                   /\ tree.tags[r].meta # NoLink /\ Present(tree.tags[r].meta[1])
                   /\ tree.tags[r].content # NoLink /\ Present(tree.tags[r].content[1])
    ELSE \A e \in EntrySet(DiskEntries) : Resolves(e)

\* the names the cache holds: the non-empty annotations of the index, or the
\* references that have a tag directory
NamedEntries ==
    IF impl \in {"sym", "sym0"}
    THEN {FullName(r) : r \in {x \in Refs : tree.tags[x] # NoTagDir}}
    ELSE {e.ref : e \in EntrySet(DiskEntries)} \ {""}

(***************************************************************************)
(* C23.  When every entry resolves, the listing returns without error one  *)
(* row for each name the index holds and no row for an entry whose         *)
(* ref.name annotation is empty or absent.  A cache directory without an   *)
(* index.json is set aside.                                                *)
(***************************************************************************)
C23_ListOneRowPerNamedEntry ==
    (HasListed /\ AllResolve /\ (impl = "fs" => diskIndex # NoFile))
        => /\ out.err = Nil
           /\ {Rows[i] : i \in DOMAIN Rows} = NamedEntries
           /\ Len(Rows) = Cardinality(NamedEntries)


\* no two entries of the index carry the same name
DistinctNames ==
    \A i, j \in DOMAIN DiskEntries :
        (DiskEntries[i].ref = DiskEntries[j].ref /\ DiskEntries[i].ref # "") => i = j

\* the names whose entry resolves
ResolvableNames ==
    IF impl \in {"sym", "sym0"}
    THEN {FullName(r) : r \in {x \in Refs :
                                  /\ tree.tags[x].chart # NoLink
                                  /\ tree.tags[x].meta # NoLink /\ Present(tree.tags[x].meta[1])
                                  /\ tree.tags[x].content # NoLink /\ Present(tree.tags[x].content[1])}}
    ELSE {e.ref : e \in {x \in EntrySet(DiskEntries) : Resolves(x)}} \ {""}

(***************************************************************************)
(* C24.  When an index entry does not resolve (its manifest or one of its  *)
(* blobs is missing), the listing drops that entry and returns the rows of *)
(* all entries that do resolve, without an error.                          *)
(***************************************************************************)
C24_ListDropsUnresolved ==
    (HasListed /\ ~AllResolve /\ DistinctNames)
        => /\ out.err = Nil
           /\ {Rows[i] : i \in DOMAIN Rows} = ResolvableNames


(***************************************************************************)
(* Vocabulary of the reference properties (SpecRef).                       *)
(***************************************************************************)
\* a reference string has been parsed
HasParsed == op.name \in {"registry", "chart save", "chart pull"}

\* the positions of the colons of the string
Colons == {i \in DOMAIN op.ref : op.ref[i] = ":"}

\* the part before and the part after the last colon
RepoPart == SubSeq(op.ref, 1, Max(Colons) - 1)
TagPart == SubSeq(op.ref, Max(Colons) + 1, Len(op.ref))

(***************************************************************************)
(* C25.  Parsing a reference string splits it at the last colon into repo  *)
(* and tag, and fails whenever the repo part or the tag part is empty: a   *)
(* string without a colon, with a trailing colon or with a leading colon.  *)
(***************************************************************************)
C25_ParseSplitsAtLastColon ==
    HasParsed
        => IF Colons = {} \/ RepoPart = <<>> \/ TagPart = <<>>
           THEN out.err # Nil
           ELSE out.err = Nil /\ out.ref = [Repo |-> RepoPart, Tag |-> TagPart]

\* the string has the digest form: "@sha256" followed by a colon
IsDigestForm ==
    \E i \in DOMAIN op.ref : op.ref[i] = "@sha256" /\ i + 1 \in Colons

(***************************************************************************)
(* C26.  A reference in digest form (one that contains "@sha256:") is      *)
(* rejected with an error and never accepted as a repo:tag pair.           *)
(***************************************************************************)
C26_DigestFormRejected == (HasParsed /\ IsDigestForm) => out.err # Nil


(***************************************************************************)
(* C27.  A Pull(r) that returns without error prints "Downloaded newer     *)
(* chart" exactly when the index had no entry for r before the call, and   *)
(* "Chart is up to date" exactly when it had one.  Behaviours in which a   *)
(* write or transfer failed or the process was killed are set aside.       *)
(***************************************************************************)
C27_PullStatusTellsExisting ==
    (Pulled /\ faults = 0)
        => op.status = IF op.had THEN "Chart is up to date" ELSE "Downloaded newer chart"


(***************************************************************************)
(* C28.  Resolving a manifest (SpecResolve) returns an error, and does not *)
(* fault, for every manifest whose schemaVersion is not 2, whose layer     *)
(* count is not 1, whose layer is not of the chart content type or whose   *)
(* layer is empty; it succeeds only for the others.                        *)
(***************************************************************************)
C28_MalformedManifestIsError ==
    out.ref # NoRef
        => IF WellFormed(op.manifest) THEN out.err = Nil ELSE out.err \notin {Nil, Panic}


(***************************************************************************)
(* C29.  Blobs are write-once: a save step that stores bytes whose digest  *)
(* is present leaves every existing blob file as it is and is no error,    *)
(* and one that stores bytes whose digest is absent creates the file.      *)
(* Steps that find a blob file cut short by an earlier failure are set     *)
(* aside.                                                                  *)
(***************************************************************************)
\* the step is the blob write of a SaveChart
IsBlobStore ==
    \/ saveChartConfig \/ saveChartContentLayer \/ saveChartManifest
    \/ FsWriteContent \/ FsWriteConfig \/ FsWriteManifest
    \/ SymLinkMeta \/ SymLinkContent

\* the bytes that step stores
StoredBytes ==
    CASE pc \in {"config", "fs_config"} -> ConfigBytes(op.chart)
      [] pc \in {"layer", "fs_content"} -> ArchiveBytes(op.chart)
      [] pc = "manifest" -> ManifestBytes(ChartManifest(op.chart))
      [] pc = "fs_manifest" -> ManifestBytes(op.manifest)
      [] pc = "sym_meta" -> SymMetaBytes
      [] OTHER -> SymContentBytes

C29_BlobsWriteOnce ==
    [][(IsBlobStore /\ \A x \in DOMAIN blobs : Digest(blobs[x]) = x)
         => /\ \A d \in DOMAIN blobs : d \in DOMAIN blobs' /\ blobs'[d] = blobs[d]
            /\ faults' = faults
                 => /\ Digest(StoredBytes) \in DOMAIN blobs => op'.err = Nil
                    /\ blobs' = Put(blobs, StoredBytes)]_vars


(***************************************************************************)
(* C30.  Adding a manifest for a reference that has an index entry         *)
(* replaces that entry where it stands and leaves the order of the other   *)
(* entries as it was; adding one for a new reference appends it at the     *)
(* end.  Steps in which the index write fails are set aside.               *)
(***************************************************************************)
\* the step adds the manifest of the running call to the index
IsIndexAdd == SaveReference \/ PullReference \/ updateIndexJson

\* the index such a step works on, before and after it
AddedTo == IF impl = "fs" THEN DiskEntries ELSE index
AddedToAfter == IF impl = "fs" THEN LoadIndex(diskIndex').manifests ELSE index'

C30_AddReplacesInPlace ==
    [][(IsIndexAdd /\ faults' = faults /\ op'.err = Nil)
         => LET old == AddedTo
                new == AddedToAfter
                name == FullName(op.ref)
            IN  IF HasRef(old, name)
                THEN /\ Len(new) = Len(old)
                     /\ \A i \in DOMAIN old :
                            IF old[i].ref = name THEN new[i].ref = name ELSE new[i] = old[i]
                ELSE /\ Len(new) = Len(old) + 1
                     /\ SubSeq(new, 1, Len(old)) = old
                     /\ new[Len(new)].ref = name]_vars


(***************************************************************************)
(* C31.  Deleting a reference from the index (SpecIndex) completes without *)
(* a panic whatever the index holds, removes exactly the entries annotated *)
(* with the reference, leaves every other entry, those without annotation  *)
(* included, in place and in order, and reports existed = TRUE exactly     *)
(* when such an entry was present.                                         *)
(***************************************************************************)
C31_DeleteRemovesExactlyTheRef ==
    [][\A ref \in Refs :
         IndexDeleteReference(ref)
            => /\ op'.err # Panic
               /\ index' = SelectSeq(index, LAMBDA e : e.ref # FullName(ref))
               /\ op'.exists = HasRef(index, FullName(ref))]_vars


(***************************************************************************)
(* C32.  Each Save, Pull or Remove that returns without error has written  *)
(* the index file exactly once, and the file then holds the in-memory      *)
(* index of the process; a failed write of the index file is reported to   *)
(* the caller as an error.  (The symlink generation keeps no index file.)  *)
(***************************************************************************)
\* the step is the one in which a Save, Pull or Remove call returns nil
Succeeds ==
    /\ pc # "idle" \/ op' # op
    /\ pc' = "idle"
    /\ op'.name \in {"Save", "Pull", "Remove"}
    /\ op'.err = Nil

\* the steps that write index.json
SavesIndex ==
    \/ SaveReference
    \/ PullReference
    \/ updateIndexJson
    \/ \E ref \in Refs : RemoveChart(ref)

C32_OneIndexSavePerCall ==
    [][/\ (Succeeds /\ impl # "sym")
            => /\ op'.saves = 1
               /\ inited' => LoadIndex(diskIndex').manifests = index'
       /\ (SavesIndex /\ faults' # faults) => op'.err # Nil]_vars


(***************************************************************************)
(* C33.  On a cache directory that has no index file the index is empty:   *)
(* the listing returns no rows and no error (SpecList), and a lookup of    *)
(* any reference reports not found, rather than an I/O or decoding error.  *)
(* (The symlink generations keep no index file.)                           *)
(***************************************************************************)
C33_MissingIndexListsEmpty ==
    (HasListed /\ diskIndex = NoFile /\ impl \notin {"sym", "sym0"})
        => out.err = Nil /\ Rows = <<>>

\* the lookup half, for the generations of Spec: a process that has not opened the
\* cache yet looks a reference up
C33_MissingIndexLookupNotFound ==
    [][\A ref \in Refs :
         (IsLoad(ref) /\ diskIndex = NoFile /\ ~inited /\ impl # "sym")
            => IsNotFound(out'.err)]_vars

\* both halves for the OCIIndex (SpecIndex): constructed with LoadIfExists over a
\* directory without index.json it is empty and has SchemaVersion 2
C33_NewIndexIsEmpty ==
    [][/\ (IndexOpen /\ diskIndex = NoFile)
            => op'.err = Nil /\ index' = <<>> /\ NewOCIIndex(diskIndex, TRUE).schemaVersion = 2
       /\ (IndexTableRows /\ index = <<>>) => out'.err = Nil /\ out'.rows = <<>>
       /\ \A ref \in Refs : (IndexLookup(ref) /\ index = <<>>) => IsNotFound(out'.err)]_vars


(***************************************************************************)
(* C34.  Storing pulled layers under a reference (StoreReference of the    *)
(* filesystemCache, called by PullChart) returns existed = TRUE exactly    *)
(* when the blob of the content layer was in the blob store before the     *)
(* call.                                                                   *)
(***************************************************************************)
\* the content layer StoreReference extracts from what was pulled
PulledContentLayer(manifest) ==
    extractLayers(SelectSeq(manifest.layers, LAMBDA d : d.mediaType \in KnownMediaTypes)).layer

C34_StoreReportsExisted ==
    [][\A ref \in Refs, manifest \in RemoteManifests :
         (FsPullChart(ref, manifest) /\ op'.err = Nil)
            => /\ op'.exists = (PulledContentLayer(manifest).digest \in DOMAIN blobs)
               /\ op'.status = IF PulledContentLayer(manifest).digest \in DOMAIN blobs
                               THEN "Chart is up to date" ELSE "Downloaded newer chart"]_vars

\* the same for the cache of part_010 (SpecIndex)
C34_IndexStoreReportsExisted ==
    [][\A ref \in WireRefs, manifest \in IndexManifests :
         (IndexStoreReference(ref, manifest) /\ op'.err = Nil)
            => op'.exists = (extractLayers(manifest.layers).layer.digest \in DOMAIN blobs)]_vars


(***************************************************************************)
(* C35.  For every reference whose index entry, manifest, config and layer *)
(* blobs are on disk, Push takes the config and the layers it transmits    *)
(* from the cache alone: it does not fail for want of content, whether or  *)
(* not this process saved or pulled the reference: the only error it can   *)
(* return is the registry's.                                               *)
(***************************************************************************)
\* the blob of the digest is on disk, whole
Intact(digest) == Present(digest) /\ blobs[digest] = digest.sha256

\* the index entries of the reference in index.json
StoredEntries(ref) == {e \in EntrySet(DiskEntries) : e.ref = FullName(ref)}

\* index.json has the reference, and its manifest and all the manifest names are on disk
StoredOnDisk(ref) ==
    /\ StoredEntries(ref) # {}
    /\ \A e \in StoredEntries(ref) :
          /\ Intact(e.digest)
          /\ IsManifestBytes(blobs[e.digest])
          /\ WellFormed(blobs[e.digest].Manifest)
          /\ \A c \in NamedBy(blobs[e.digest].Manifest) : Intact(c)

C35_PushFromCacheAlone ==
    [][\A ref \in Refs :
         (PushChart(ref) /\ StoredOnDisk(ref) /\ impl # "sym" /\ (inited => index = DiskEntries))
            => op'.err \in {Nil, ErrRemote}]_vars


(***************************************************************************)
(* C36.  Remove(r) removes the index entry of every reference present in   *)
(* the index and reports it as existing, whatever the state of the blobs   *)
(* the entry leads to (also when its manifest or a layer blob is missing   *)
(* or malformed).  Steps in which the write of the index fails, and an     *)
(* index.json that cannot be decoded, are set aside.                       *)
(***************************************************************************)
C36_RemoveWhateverTheBlobs ==
    [][\A ref \in Refs :
         (IsRemove(ref) /\ HasEntry(ref) /\ faults' = faults /\ diskIndex # CorruptFile)
            => /\ ~HasEntry(ref)'
               /\ op'.err = Nil]_vars


(***************************************************************************)
(* C37.  After any mutating cache operation (Save, Pull, Remove) returns,   *)
(* with success or with an error, the in-memory index of the cache         *)
(* instance equals the index stored on disk.  Looked at for the            *)
(* generations that keep an index in memory, in the process that made the  *)
(* call.                                                                   *)
(***************************************************************************)
\* the step is the one in which a Save, Pull or Remove returns to a live process
ReturnsFromMutation ==
    /\ IsCallStep
    /\ pc' = "idle"
    /\ op'.name \in {"Save", "Pull", "Remove"}
    /\ impl \in OrasImpls
    /\ inited'

C37_MemoryIndexEqualsDisk == [][ReturnsFromMutation => index' = DiskEntries']_vars


(***************************************************************************)
(* C38.  When two cache instances over the same root directory perform     *)
(* mutating operations one after the other (never overlapping), no index   *)
(* entry written by one instance is lost by a later save of the other: a   *)
(* Store or Remove of a reference leaves the entries index.json has for    *)
(* the other references in index.json.                                     *)
(***************************************************************************)
\* the step is a whole Store or Remove of the reference by the instance
MutatesShared(c, ref) ==
    \/ \E ch \in Charts : CacheStoreReference(c, ch, ref)
    \/ CacheDeleteReference(c, ref)

C38_NoLostEntry ==
    [][\A c \in Caches, ref \in Refs :
         MutatesShared(c, ref)
            => \A e \in EntrySet(DiskEntries) :
                  e.ref # FullName(ref) => e \in EntrySet(DiskEntries')]_vars


(***************************************************************************)
(* C39.  SaveChart leaves the chart object passed by the caller unchanged: *)
(* its metadata, including name and version, is the same at every point of *)
(* the call and after it as before, on success and on error.               *)
(***************************************************************************)
C39_SaveLeavesChartObject == op.name = "Save" => op.arg = op.chart


(***************************************************************************)
(* C40.  The chart-repository package upload terminates for every server   *)
(* behaviour: it makes the initial attempt and at most one retry with an   *)
(* access token, also when the server keeps answering 401 or the token     *)
(* endpoint returns an empty token.                                        *)
(***************************************************************************)
IsUpload == op.name = "uploadPackage"

\* at most two POSTs of the package and one token request in a call
C40_AtMostOneRetry == IsUpload => (op.attempts <= 2 /\ op.tokens <= 1)

\* a call that has started returns
C40_UploadReturns == (pc # "idle") ~> (pc = "idle")


====
